---- MODULE Spec2Model ----
(***************************************************************************)
(* A model of swaybar: the stream supervisor of src/source/main.rs (the    *)
(* main loop, the adapters' map closures, the error stream and its         *)
(* single-slot channel) and the bus synchronizers of                       *)
(* src/source/dbus/bluez.rs and src/source/dbus/upower.rs.                  *)
(*                                                                         *)
(* One supervisor action is one iteration of the main loop: select_all     *)
(* polls the streams in order and returns the item of the first one that   *)
(* is ready, the adapter's map closure has then already written the        *)
(* Snapshot Store, and the match arm handles the item.  Nothing else runs  *)
(* in between: the streams are polled only by that select_all.             *)
(*                                                                         *)
(* The rendered text of a block is not modelled: a status value v stands   *)
(* for the block rendered from it, 0 for None or an empty Vec.             *)
(***************************************************************************)
EXTENDS Integers, Sequences, FiniteSets, TLC

\* ------------------------------------------------------------------ bounds
\* Distinct status values an adapter may report.
MaxVal == 1
\* Distinct readings of what an adapter watches.
MaxReading == 2
\* Constructions of a generator counted (saturating).
MaxBuilds == 2
\* Events of a generator recorded since its construction.
MaxEvents == 2
\* Notifications and ticks of a generator counted since its construction (saturating).
MaxWaits == 2
\* Writes to the error channel counted since its last read (saturating).
MaxBurst == 2
\* Device objects the bus may hold.
MaxPaths == 2
\* Undelivered signals the bus may hold for the synchronizer.
MaxSignals == 2
\* The PropertiesChanged signals delivered between two passes.
MaxDelivered == 3

\* --------------------------------------------------------- program constants
\* Positions in the multiplexed set: fallible_futures, then infallible_streams.
BLUEZ == 0
CLICKS == 1
PROMETHEUS == 2
UPOWER == 3
VOLUME == 4
CLOCK == 5
ERROR == 6
\* async_channel::bounded(1)
CAPACITY == 1
\* if ticks >= 10
DWELL == 10

Fallible == BLUEZ..VOLUME
Values == 1..MaxVal
\* The variants of BlockUpdateError.
Errors == {"IO", "JSON", "Prometheus", "ZBus"}
NoPanic == "none"

VARIABLES
  blocks,            \* the Snapshot Store (struct Blocks)
  fallible_streams,  \* slot i of the multiplexed set
  pending_streams,   \* the other stream of slot i
  failed_streams,    \* the quarantine flags
  channel,           \* the error channel's queue
  ticks,             \* the error stream's tick count
  panicked,          \* the assertion, unwrap or `?` that stopped the process
  last_sent,         \* history: the last error written since the channel was last read
  nsent,             \* history: writes since the channel was last read
  elapsed,           \* history: ticks since the error stream last received an error, up to DWELL
  stdout,            \* history: what the latest iteration wrote to stdout ("off": no record)
  click_warning,     \* history: the warning of the Click arm in the latest iteration ("off": no record)
  called             \* history: the bluez calls of the Click arm in the latest iteration ("off": no record)

supervisor_vars == <<blocks, fallible_streams, pending_streams, failed_streams, channel, ticks,
                     panicked, last_sent, nsent, elapsed, stdout,
                     click_warning, called>>

\* One bus synchronizer (dbus::bluez::statuses or dbus::upower::statuses) and
\* the bus it watches.
VARIABLES
  kind,                \* "bluez" or "upower": which statuses() this instance runs
  objects,             \* bus: the device objects that exist
  admissible,          \* bus: the objects whose Paired / IsPresent property is true
  membership,          \* undelivered InterfacesAdded/Removed (DeviceAdded/Removed) signals
  property,            \* undelivered PropertiesChanged signals, per subscription
  devices,             \* keys of the HashMap devices
  devices_properties,  \* keys of the HashMap devices_properties
  paths,               \* the latest enumeration result
  previous_paths,      \* devices.keys() at the start of the latest pass
  todo,                \* paths.difference(&previous_paths) not yet visited
  pc,                  \* where the generator is
  yielded,             \* the last snapshot yielded: the devices it lists, in order
  skipped,             \* history: the paths the filter rejected in the latest pass
  rejected,            \* history: the paths the filter ever rejected
  earlier_paths,       \* history: the enumeration result of the pass before, while a pass runs
  delivered,           \* history: the PropertiesChanged signals delivered since the latest pass
  emitted,             \* history: the snapshots yielded since the latest pass
  fresh,               \* history: a pass has been completed since the latest membership signal taken
  errors               \* history: the errors the generator has yielded

sync_vars == <<kind, objects, admissible, membership, property, devices, devices_properties,
               paths, previous_paths, todo, pc, yielded, skipped, rejected,
               earlier_paths,
               delivered,
               emitted,
               fresh,
               errors>>

\* The RefCell that holds the Snapshot Store (RefCellGuard<Blocks>) and the
\* one thread that runs the main task and, inside it, the generators.
VARIABLES
  borrow,    \* the borrow flag of the RefCell: 0 unused, 1 borrowed, -1 mutably borrowed
  running,   \* what the thread executes: a generator, "main", or "none" (the task is suspended)
  position   \* where the code of each generator and of the main loop stands

borrow_vars == <<borrow, running, position>>

\* The generator of one adapter, from its construction on, and what it reads.
VARIABLES
  generator,  \* per adapter: where its generator stands, how often it was constructed, the
              \* starting value it holds, the notifications and ticks it has consumed
              \* and its first events since its latest construction
  world       \* per adapter: the reading a query of the bus, of the server or of pactl gives now

start_vars == <<generator, world>>

\* ------------------------------------------------------- the generators
\* The adapters that publish a state.
Starters == {BLUEZ, PROMETHEUS, UPOWER, VOLUME}
Readings == 1..MaxReading

\* A generator that was not constructed yet.
Unbuilt == [at |-> "unbuilt", built |-> 0, held |-> {}, waits |-> 0, events |-> <<>>]

\* --------------------------------------------------------------- the streams
\* A stream is described by what its next poll can give:
\*   "once"    volume only: the starting value of smol::stream::once is due
\*   "live"    the adapter runs: a value or an error when the outside world moves
\*   "erred"   the generator has yielded its error and returned: None is due
\*   "ended"   None was returned: every further poll returns None at once
\*   "pending" smol::stream::pending(), never ready
\* The generators that are given the store (`blocks: &BlocksGuard`): every
\* stream of the multiplexed set but clicks.
Writers == {"bluez", "prometheus", "upower", "volume", "clock", "error"}

StreamStates == {"once", "live", "erred", "ended", "pending"}

\* Blocks::default()
DefaultBlocks ==
  [bluez |-> 0, clock |-> 0, cpu |-> 0, download |-> 0, error |-> "", temperature |-> 0,
   upload |-> 0, upower |-> 0, volume |-> 0, wifi |-> 0]

\* fallible_futures[index](&executor, &blocks).await: a new stream; volume's
\* starts with the value volume::statuses() has just read.
NewStream(index) == IF index = VOLUME THEN "once" ELSE "live"

\* Fault injection: one side of the swap is forgotten.
SwapFallible_Keeps(f, p, index) == f
SwapPending_Keeps(f, p, index) == p

\* std::mem::swap(&mut fallible_streams[index], &mut pending_streams[index])
SwapFallible(f, p, index) == [f EXCEPT ![index] = p[index]]
SwapPending(f, p, index) == [p EXCEPT ![index] = f[index]]

\* Fault injection: a generator that has yielded its error suspends before
\* it returns.
ReadyNow_Lazy(index) == index \in Fallible /\ fallible_streams[index] = "once"

\* The stream at `index` answers a poll at once (without any outside event).
ReadyNow(index) == index \in Fallible /\ fallible_streams[index] \in {"once", "erred", "ended"}

\* select_all polls in order and returns the first ready stream: `index` can
\* win only if no stream before it is ready at once.
\* Fault injection: the loop goes on polling after the process has stopped.
FirstReady_AfterStop(index) ==
  \A before \in 0..(index - 1) : ~ReadyNow(before)

FirstReady(index) ==
  /\ panicked = NoPanic
  /\ \A before \in 0..(index - 1) : ~ReadyNow(before)

\* ----------------------------------------------------------- error channel
\* Fault injection: try_send, which gives up on a full queue.
force_send_Full(queue, error) == IF Len(queue) >= CAPACITY THEN queue ELSE Append(queue, error)

\* ErrorSender::force_send: never waits; a full queue drops its oldest error.
force_send(queue, error) ==
  IF Len(queue) >= CAPACITY THEN Append(Tail(queue), error) ELSE Append(queue, error)

\* error_sender.force_send(error).unwrap(), with its history.
Send(error) ==
  /\ channel' = force_send(channel, error)
  /\ last_sent' = error
  /\ nsent' = IF nsent < MaxBurst THEN nsent + 1 ELSE nsent

NoSend == UNCHANGED <<channel, last_sent, nsent>>

\* ------------------------------------------------------- adapter statuses
\* What an adapter's stream can yield: Ok(value) or Err(error).
Ok(value) == [ok |-> TRUE, value |-> value]
Err(error) == [ok |-> FALSE, error |-> error]

\* dbus::bluez::statuses(): a Status always renders to at least one block.
BluezStatuses == {Ok(v) : v \in Values} \cup {Err("ZBus")}
\* dbus::upower::statuses(): the Vec of devices may be empty.
UpowerStatuses == {Ok(v) : v \in {0} \cup Values} \cup {Err("ZBus")}
\* volume::statuses()
VolumeStatuses == {Ok(v) : v \in Values} \cup {Err("IO")}
\* One refresh of the metrics adapter: the five queries are awaited in this
\* order, each with `?`.  A query gives a value, no series (0: pad gives None,
\* wifi.first() gives None), or fails; after a failure no query is made.
Queries == <<"cpu", "download", "temperature", "upload", "wifi">>
Failed == -1
NotQueried == -2
Queried ==
  {[query \in {"cpu", "download", "temperature", "upload", "wifi"} |-> v] : v \in Values}
  \cup {[query \in {"cpu", "download", "temperature", "upload", "wifi"} |->
           IF query = "wifi" THEN 0 ELSE v] : v \in Values}
  \cup {[query \in {"cpu", "download", "temperature", "upload", "wifi"} |->
           LET at == CHOOSE i \in DOMAIN Queries : Queries[i] = query IN
           IF at < first THEN v ELSE IF at = first THEN Failed ELSE NotQueried] :
          v \in Values, first \in DOMAIN Queries}

\* Fault injection: a failed query counts as one without a series.
Refresh_Lenient(results) ==
  Ok([query \in DOMAIN results |-> IF results[query] < 0 THEN 0 ELSE results[query]])

\* The item of the stream!: `yield Ok((cpu(..).await?, .., wifi(..).await?))`,
\* the five results, or the error of the first `?` that failed (after which
\* the generator returns).
Refresh(results) ==
  IF \E query \in DOMAIN results : results[query] = Failed
  THEN Err("Prometheus")
  ELSE Ok(results)

PrometheusStatuses == {Refresh(results) : results \in Queried}

\* The statuses the adapter at `index` can yield.
Statuses(index) ==
  CASE index = BLUEZ -> BluezStatuses
    [] index = PROMETHEUS -> PrometheusStatuses
    [] index = UPOWER -> UpowerStatuses
    [] index = VOLUME -> VolumeStatuses
    [] OTHER -> {}

Publish == [type |-> "Publish"]
Rebuild == [type |-> "Rebuild"]
Error(error) == [type |-> "Error", error |-> error]
Click(click) == [type |-> "Click", click |-> click]

\* Fault injection: the Err arm leaves the entry as it is.
bluez_Keeps(b, status) ==
  IF status.ok
  THEN [blocks |-> [b EXCEPT !.bluez = status.value], update |-> Publish]
  ELSE [blocks |-> b, update |-> Error(status.error)]

\* The map closures: the Snapshot Store after the write, and the BlockUpdate.
bluez(b, status) ==
  IF status.ok
  THEN [blocks |-> [b EXCEPT !.bluez = status.value], update |-> Publish]
  ELSE [blocks |-> [b EXCEPT !.bluez = 0], update |-> Error(status.error)]

\* Fault injection: the Err arm stores Blocks::default() over the whole store.
upower_Default(b, status) ==
  IF status.ok
  THEN [blocks |-> [b EXCEPT !.upower = status.value], update |-> Publish]
  ELSE [blocks |-> DefaultBlocks, update |-> Error(status.error)]

upower(b, status) ==
  IF status.ok
  THEN [blocks |-> [b EXCEPT !.upower = status.value], update |-> Publish]
  ELSE [blocks |-> [b EXCEPT !.upower = 0], update |-> Error(status.error)]

volume(b, status) ==
  IF status.ok
  THEN [blocks |-> [b EXCEPT !.volume = status.value], update |-> Publish]
  ELSE [blocks |-> [b EXCEPT !.volume = 0], update |-> Error(status.error)]

\* Fault injection: a query without a series keeps the entry of the refresh before.
prometheus_Merges(b, status) ==
  IF status.ok
  THEN [blocks |-> [b EXCEPT !.cpu = status.value.cpu, !.download = status.value.download,
                             !.temperature = status.value.temperature,
                             !.upload = status.value.upload,
                             !.wifi = IF status.value.wifi = 0 THEN b.wifi ELSE status.value.wifi],
        update |-> Publish]
  ELSE [blocks |-> [b EXCEPT !.cpu = 0, !.download = 0, !.temperature = 0, !.upload = 0,
                             !.wifi = 0],
        update |-> Error(status.error)]

prometheus(b, status) ==
  IF status.ok
  THEN [blocks |-> [b EXCEPT !.cpu = status.value.cpu, !.download = status.value.download,
                             !.temperature = status.value.temperature,
                             !.upload = status.value.upload, !.wifi = status.value.wifi],
        update |-> Publish]
  ELSE [blocks |-> [b EXCEPT !.cpu = 0, !.download = 0, !.temperature = 0, !.upload = 0,
                             !.wifi = 0],
        update |-> Error(status.error)]

clock(b, time) == [blocks |-> [b EXCEPT !.clock = time], update |-> Publish]

\* ------------------------------------------------------------- user input
ClickNames == {"bluez", "volume", "other"}
ClickInstances == {"none", "device"}
ClickButtons == {1, 2, 4, 5}
\* The records read from stdin: the instance is looked at by the "bluez" arm
\* only, so the other names come without one.
Clicks ==
  {click \in [name : ClickNames, instance : ClickInstances, button : ClickButtons] :
     click.name # "bluez" => click.instance = "none"}

\* Fault injection: the button alone chooses the operation.
Control_AnyName(click) ==
  CASE click.button = 1 -> "mute"
    [] click.button = 4 -> "up"
    [] click.button = 5 -> "down"
    [] OTHER -> "none"

\* The control operation the Click arm awaits, "none" when it calls nothing.
Control(click) ==
  CASE click.name = "bluez" /\ click.button = 1 -> "toggle"
    [] click.name = "volume" /\ click.button = 1 -> "mute"
    [] click.name = "volume" /\ click.button = 4 -> "up"
    [] click.name = "volume" /\ click.button = 5 -> "down"
    [] OTHER -> "none"

\* The error a failed control operation is converted to (error.into()).
ControlError(control) == IF control = "toggle" THEN "ZBus" ELSE "IO"

\* The record of the warning the Click arm logs in one iteration of the main
\* loop, when the record is on; "" when the iteration logs none.
NoWarning(log) == IF log = "off" THEN "off" ELSE ""

\* log::warn!("Failed to handle event: {error:?}") when the control
\* operation fails, log::warn!("Unhandled event: {name:?}") for a name that
\* matches no arm.
Warned(log, click, failed) ==
  CASE log = "off" -> "off"
    [] click.name \notin {"bluez", "volume"} -> "Unhandled event"
    [] Control(click) # "none" /\ failed -> "Failed to handle event"
    [] OTHER -> ""

\* ------------------------------------------------------------- the output
\* A rendered block: the entry it comes from and its full_text ("" stands for
\* None and for an empty Vec, as 0 does in the store).
Text(value) == IF value = 0 THEN "" ELSE ToString(value)

\* Fault injection: the error entry is left out of the bar.
Bar_NoError(b) ==
  SelectSeq(<<[name |-> "upload", full_text |-> Text(b.upload)],
              [name |-> "download", full_text |-> Text(b.download)],
              [name |-> "wifi", full_text |-> Text(b.wifi)],
              [name |-> "temperature", full_text |-> Text(b.temperature)],
              [name |-> "cpu", full_text |-> Text(b.cpu)],
              [name |-> "upower", full_text |-> Text(b.upower)],
              [name |-> "volume", full_text |-> Text(b.volume)],
              [name |-> "bluez", full_text |-> Text(b.bluez)],
              [name |-> "clock", full_text |-> Text(b.clock)]>>,
            LAMBDA block : block.full_text # "")

\* The closure of blocks.borrow in the Publish arm: error.iter()
\* .chain(upload.iter())...chain(clock.iter()).cloned().collect(); an entry
\* that is None or empty gives no block.
Bar(b) ==
  SelectSeq(<<[name |-> "error", full_text |-> b.error],
              [name |-> "upload", full_text |-> Text(b.upload)],
              [name |-> "download", full_text |-> Text(b.download)],
              [name |-> "wifi", full_text |-> Text(b.wifi)],
              [name |-> "temperature", full_text |-> Text(b.temperature)],
              [name |-> "cpu", full_text |-> Text(b.cpu)],
              [name |-> "upower", full_text |-> Text(b.upower)],
              [name |-> "volume", full_text |-> Text(b.volume)],
              [name |-> "bluez", full_text |-> Text(b.bluez)],
              [name |-> "clock", full_text |-> Text(b.clock)]>>,
            LAMBDA block : block.full_text # "")

\* The record of what one iteration of the main loop writes to stdout, when
\* The record of the calls dbus::bluez::toggle issues in one iteration of the
\* main loop, when the record is on; <<>> when the iteration issues none.
NoCall(log) == IF log = "off" THEN "off" ELSE <<>>

\* What device.connected().await? gives toggle; "error" also stands for a
\* failure of the connection or of the proxy's construction before it.
ConnectedReads == {"true", "false", "error"}
Unread == "unread"

\* The replies the bus can give the control operation of a click that ends
\* in Ok (failed = FALSE) or in Err.
Replies(click, failed) ==
  IF Control(click) = "toggle" /\ click.instance # "none"
  THEN IF failed THEN ConnectedReads ELSE {"true", "false"}
  ELSE {Unread}

\* Fault injection: a device whose property cannot be read is connected.
toggle_ConnectsUnread(device, connected) ==
  IF device # "none"
  THEN IF connected = "true"
       THEN <<[object |-> device, method |-> "Disconnect"]>>
       ELSE <<[object |-> device, method |-> "Connect"]>>
  ELSE <<[object |-> "adapter", method |-> "power"]>>

\* dbus::bluez::toggle: the calls it issues, in order.
toggle(device, connected) ==
  IF device # "none"
  THEN CASE connected = "true" -> <<[object |-> device, method |-> "Disconnect"]>>
         [] connected = "false" -> <<[object |-> device, method |-> "Connect"]>>
         [] OTHER -> <<>>
  ELSE <<[object |-> "adapter", method |-> "power"]>>

\* The calls of the "bluez" arm for a click.
Called(log, click, connected) ==
  CASE log = "off" -> "off"
    [] Control(click) = "toggle" -> toggle(click.instance, connected)
    [] OTHER -> <<>>

\* the record is on: nothing, or the bar of the Publish arm's write_all.
NoOutput(log) == IF log = "off" THEN "off" ELSE <<>>
Written(log, bar) == IF log = "off" THEN "off" ELSE <<bar>>

\* ------------------------------------------------------ the match arms
\* `polled` is fallible_streams after the poll that produced the item.

\* Fault injection: the failure goes up with `?` and the supervisor stops.
HandleClick_Aborts(click, failed, polled) ==
  /\ NoSend
  /\ stdout' = NoOutput(stdout)
  /\ fallible_streams' = polled
  /\ panicked' = IF Control(click) # "none" /\ failed THEN "control failed" ELSE panicked
  /\ UNCHANGED <<pending_streams, failed_streams>>

\* Some(BlockUpdate::Click(..))
HandleClick(click, failed, polled) ==
  /\ IF Control(click) # "none" /\ failed
     THEN Send(ControlError(Control(click)))
     ELSE NoSend
  /\ stdout' = NoOutput(stdout)
  /\ fallible_streams' = polled
  /\ UNCHANGED <<pending_streams, failed_streams, panicked>>

\* Fault injection: the error is logged and not sent.
HandleError_Logs(error, polled) ==
  /\ NoSend
  /\ stdout' = NoOutput(stdout)
  /\ fallible_streams' = polled
  /\ UNCHANGED <<pending_streams, failed_streams, panicked>>

\* Some(BlockUpdate::Error(error))
HandleError(error, polled) ==
  /\ Send(error)
  /\ stdout' = NoOutput(stdout)
  /\ fallible_streams' = polled
  /\ UNCHANGED <<pending_streams, failed_streams, panicked>>

\* Some(BlockUpdate::Publish)
HandlePublish(polled) ==
  /\ stdout' = Written(stdout, Bar(blocks'))
  /\ fallible_streams' = polled
  /\ UNCHANGED <<pending_streams, failed_streams, panicked>>

\* Fault injection: every stream is rebuilt; no stream is rebuilt.
Rebuilds_Always(failed, index) == TRUE
Rebuilds_Never(failed, index) == FALSE

\* Some(BlockUpdate::Rebuild): `if failed_streams[index]`
Rebuilds(failed, index) == failed[index]

\* `for index in 0..fallible_streams.len()`: a new stream is built into
\* pending_streams[index], the flag is cleared and the two are swapped.
HandleRebuild(polled) ==
  LET built == [index \in Fallible |->
                  IF Rebuilds(failed_streams, index) THEN NewStream(index) ELSE pending_streams[index]]
  IN
  /\ fallible_streams' =
       [index \in Fallible |->
          IF Rebuilds(failed_streams, index) THEN SwapFallible(polled, built, index)[index]
          ELSE polled[index]]
  /\ pending_streams' =
       [index \in Fallible |->
          IF Rebuilds(failed_streams, index) THEN SwapPending(polled, built, index)[index]
          ELSE built[index]]
  /\ failed_streams' =
       [index \in Fallible |-> IF Rebuilds(failed_streams, index) THEN FALSE ELSE failed_streams[index]]
  /\ stdout' = NoOutput(stdout)
  /\ UNCHANGED panicked

\* Fault injection: the ended stream is replaced by a new one at once.
HandleNone_Restarts(index, polled) ==
  /\ stdout' = NoOutput(stdout)
  /\ failed_streams' = [failed_streams EXCEPT ![index] = TRUE]
  /\ fallible_streams' = [polled EXCEPT ![index] = NewStream(index)]
  /\ UNCHANGED <<pending_streams, panicked>>

\* None
HandleNone(index, polled) ==
  /\ stdout' = NoOutput(stdout)
  /\ IF index \in Fallible /\ ~failed_streams[index]
     THEN /\ failed_streams' = [failed_streams EXCEPT ![index] = TRUE]
          /\ fallible_streams' = SwapFallible(polled, pending_streams, index)
          /\ pending_streams' = SwapPending(polled, pending_streams, index)
          /\ UNCHANGED panicked
     ELSE /\ panicked' = "assert: End of stream"
          /\ fallible_streams' = polled
          /\ UNCHANGED <<pending_streams, failed_streams>>

Handle(update, polled) ==
  CASE update.type = "Publish" -> HandlePublish(polled) /\ NoSend
    [] update.type = "Error" -> HandleError(update.error, polled)

\* ------------------------------------------- one iteration of the main loop
\* bluez's stream yields a Status or its terminal error.
BluezYields(status) ==
  /\ FirstReady(BLUEZ)
  /\ fallible_streams[BLUEZ] = "live"
  /\ status \in BluezStatuses
  /\ LET mapped == bluez(blocks, status) IN
       /\ blocks' = mapped.blocks
       /\ Handle(mapped.update,
                 [fallible_streams EXCEPT ![BLUEZ] = IF status.ok THEN "live" ELSE "erred"])
  /\ UNCHANGED <<ticks, sync_vars, borrow_vars, start_vars>>
  /\ click_warning' = NoWarning(click_warning)
  /\ called' = NoCall(called)
  /\ UNCHANGED elapsed

BluezItem == \E status \in BluezStatuses : BluezYields(status)

\* prometheus' stream yields the results of a refresh or its terminal error.
PrometheusYields(status) ==
  /\ FirstReady(PROMETHEUS)
  /\ fallible_streams[PROMETHEUS] = "live"
  /\ status \in PrometheusStatuses
  /\ LET mapped == prometheus(blocks, status) IN
       /\ blocks' = mapped.blocks
       /\ Handle(mapped.update,
                 [fallible_streams EXCEPT ![PROMETHEUS] = IF status.ok THEN "live" ELSE "erred"])
  /\ UNCHANGED <<ticks, sync_vars, borrow_vars, start_vars>>
  /\ click_warning' = NoWarning(click_warning)
  /\ called' = NoCall(called)
  /\ UNCHANGED elapsed

PrometheusItem == \E status \in PrometheusStatuses : PrometheusYields(status)

\* upower's stream yields its statuses or its terminal error.
UpowerYields(status) ==
  /\ FirstReady(UPOWER)
  /\ fallible_streams[UPOWER] = "live"
  /\ status \in UpowerStatuses
  /\ LET mapped == upower(blocks, status) IN
       /\ blocks' = mapped.blocks
       /\ Handle(mapped.update,
                 [fallible_streams EXCEPT ![UPOWER] = IF status.ok THEN "live" ELSE "erred"])
  /\ UNCHANGED <<ticks, sync_vars, borrow_vars, start_vars>>
  /\ click_warning' = NoWarning(click_warning)
  /\ called' = NoCall(called)
  /\ UNCHANGED elapsed

UpowerItem == \E status \in UpowerStatuses : UpowerYields(status)

\* volume's stream: smol::stream::once(status().await) yields the starting
\* value, Ok or Err, and the chain goes on with the try_stream! either way.
VolumeStarts(status) ==
  /\ FirstReady(VOLUME)
  /\ fallible_streams[VOLUME] = "once"
  /\ status \in VolumeStatuses
  /\ LET mapped == volume(blocks, status) IN
       /\ blocks' = mapped.blocks
       /\ Handle(mapped.update, [fallible_streams EXCEPT ![VOLUME] = "live"])
  /\ UNCHANGED <<ticks, sync_vars, borrow_vars, start_vars>>
  /\ click_warning' = NoWarning(click_warning)
  /\ called' = NoCall(called)
  /\ UNCHANGED elapsed

VolumeOnce == \E status \in VolumeStatuses : VolumeStarts(status)

\* volume's try_stream! yields a Status or its terminal error.
VolumeYields(status) ==
  /\ FirstReady(VOLUME)
  /\ fallible_streams[VOLUME] = "live"
  /\ status \in VolumeStatuses
  /\ LET mapped == volume(blocks, status) IN
       /\ blocks' = mapped.blocks
       /\ Handle(mapped.update,
                 [fallible_streams EXCEPT ![VOLUME] = IF status.ok THEN "live" ELSE "erred"])
  /\ UNCHANGED <<ticks, sync_vars, borrow_vars, start_vars>>
  /\ click_warning' = NoWarning(click_warning)
  /\ called' = NoCall(called)
  /\ UNCHANGED elapsed

VolumeItem == \E status \in VolumeStatuses : VolumeYields(status)

\* The output of `pactl subscribe` ends: the while loop of the try_stream! is
\* left and pactl.status() is awaited; the wait gives the exit status or fails.
PactlExits == {"exited", "wait failed"}

\* Fault injection: the generator returns when the output has ended.
AfterOutput_Returns(exit) == [some |-> FALSE]

\* `let status = pactl.status().await?; Err(..)?`: the next item of the
\* generator is an error either way.
AfterOutput(exit) == [some |-> TRUE, status |-> Err("IO")]

VolumeOutputEnds(exit) ==
  /\ FirstReady(VOLUME)
  /\ fallible_streams[VOLUME] = "live"
  /\ exit \in PactlExits
  /\ LET item == AfterOutput(exit) IN
       IF item.some
       THEN LET mapped == volume(blocks, item.status) IN
              /\ blocks' = mapped.blocks
              /\ Handle(mapped.update, [fallible_streams EXCEPT ![VOLUME] = "erred"])
       ELSE /\ HandleNone(VOLUME, [fallible_streams EXCEPT ![VOLUME] = "ended"])
            /\ NoSend
            /\ UNCHANGED blocks
  /\ UNCHANGED <<ticks, sync_vars, borrow_vars, start_vars>>
  /\ click_warning' = NoWarning(click_warning)
  /\ called' = NoCall(called)
  /\ UNCHANGED elapsed

VolumeEnd == \E exit \in PactlExits : VolumeOutputEnds(exit)

\* clicks' stream decodes a line into a Click; the control operation it
\* names, if any, succeeds or fails.
ClicksDispatches(click, failed, connected) ==
  /\ FirstReady(CLICKS)
  /\ fallible_streams[CLICKS] = "live"
  /\ HandleClick(click, failed, fallible_streams)
  /\ click_warning' = Warned(click_warning, click, failed)
  /\ called' = Called(called, click, connected)
  /\ UNCHANGED <<blocks, ticks, sync_vars, borrow_vars, start_vars>>
  /\ UNCHANGED elapsed

ClicksYields(click, failed) ==
  \E connected \in Replies(click, failed) : ClicksDispatches(click, failed, connected)

\* Only a control operation can fail.
ClicksClick ==
  \E click \in Clicks :
    \E failed \in IF Control(click) = "none" THEN {FALSE} ELSE BOOLEAN :
      ClicksYields(click, failed)

\* clicks' stream yields an error (the read failed, or the line is no Click):
\* filter_map goes on with the next line.
\* What lines() hands to the closure of filter_map, other than the line of
\* a click: a read error, the opening "[", a line whose JSON stops short
\* (serde_json reports EOF while parsing), a line that is not a click record.
StdinItems == {"read error", "[", "truncated", "invalid"}

\* The closure of filter_map on such an item: the "[" is dropped, a read
\* error and every line serde_json::from_str rejects become an Error.
Filtered == [type |-> "filtered"]
filter_map(line) ==
  CASE line = "[" -> Filtered
    [] line = "read error" -> Error("IO")
    [] line \in {"truncated", "invalid"} -> Error("JSON")

\* The clicks stream reads `line` and yields an Error: the stream is a
\* filter_map over the lines of stdin, which goes on with the next line.
ClicksReads(line) ==
  /\ FirstReady(CLICKS)
  /\ fallible_streams[CLICKS] = "live"
  /\ filter_map(line).type = "Error"
  /\ HandleError(filter_map(line).error, fallible_streams)
  /\ UNCHANGED <<blocks, ticks, sync_vars, borrow_vars, start_vars>>
  /\ click_warning' = NoWarning(click_warning)
  /\ called' = NoCall(called)
  /\ UNCHANGED elapsed

ClicksError == \E line \in StdinItems : ClicksReads(line)

\* A stream returns None: the generator returned after its error, stdin
\* reached its end, or an ended stream was polled again.
CanEnd(index) ==
  \/ fallible_streams[index] \in {"erred", "ended"}
  \/ index = CLICKS /\ fallible_streams[index] = "live"

EndOfStream(index) ==
  /\ FirstReady(index)
  /\ CanEnd(index)
  /\ HandleNone(index, [fallible_streams EXCEPT ![index] = "ended"])
  /\ NoSend
  /\ UNCHANGED <<blocks, ticks, sync_vars, borrow_vars, start_vars>>
  /\ click_warning' = NoWarning(click_warning)
  /\ called' = NoCall(called)
  /\ UNCHANGED elapsed

\* The clock's timer fires.  The time of day is not modelled: 1 is a time.
ClockItem ==
  /\ FirstReady(CLOCK)
  /\ \E time \in {1} :
       LET mapped == clock(blocks, time) IN
       /\ blocks' = mapped.blocks
       /\ Handle(mapped.update, fallible_streams)
  /\ UNCHANGED <<ticks, sync_vars, borrow_vars, start_vars>>
  /\ click_warning' = NoWarning(click_warning)
  /\ called' = NoCall(called)
  /\ UNCHANGED elapsed

\* Fault injection: a received error leaves the count of ticks as it is.
Received_Keeps(t) == t

\* Event::Receive: `ticks = 0`
Received(t) == 0

\* Fault injection: the received error is dropped.
Shows_Nothing(b, error) == b

\* blocks.error = Some(Block::new(&color(format!("{error:?}"), Color::Red)))
Shows(b, error) == [b EXCEPT !.error = error]

\* The error stream: select_all([receiver.next(), timer.next()]) polls the
\* receiver first.  Event::Receive
ErrorReceive ==
  /\ FirstReady(ERROR)
  /\ channel # <<>>
  /\ ticks' = Received(ticks)
  /\ elapsed' = 0
  /\ blocks' = Shows(blocks, Head(channel))
  /\ channel' = Tail(channel)
  /\ nsent' = 0
  /\ last_sent' = ""
  /\ HandlePublish(fallible_streams)
  /\ UNCHANGED <<sync_vars, borrow_vars, start_vars>>
  /\ click_warning' = NoWarning(click_warning)
  /\ called' = NoCall(called)

\* Fault injection: the ticks without an error are the ones counted.
Ticked_Unshown(t, b) == t + (IF b.error = "" THEN 1 ELSE 0)

\* Fault injection: a tick with an error displayed counts twice.
Ticked_Twice(t, b) == t + (IF b.error # "" THEN 2 ELSE 0)

\* Fault injection: every tick counts, an error displayed or not.
Ticked_Always(t, b) == t + 1

\* Event::Tick
Ticked(t, b) == t + (IF b.error # "" THEN 1 ELSE 0)

ErrorTick ==
  /\ FirstReady(ERROR)
  /\ channel = <<>>
  /\ IF Ticked(ticks, blocks) >= DWELL
     THEN /\ ticks' = 0
          /\ blocks' = [blocks EXCEPT !.error = ""]
          /\ HandleRebuild(fallible_streams)
     ELSE /\ ticks' = Ticked(ticks, blocks)
          /\ stdout' = NoOutput(stdout)
          /\ UNCHANGED <<blocks, fallible_streams, pending_streams, failed_streams, panicked>>
  /\ NoSend
  /\ elapsed' = IF elapsed < DWELL THEN elapsed + 1 ELSE elapsed
  /\ UNCHANGED <<sync_vars, borrow_vars, start_vars>>
  /\ click_warning' = NoWarning(click_warning)
  /\ called' = NoCall(called)

\* --------------------------------------------------------- the supervisor
SupervisorInit ==
  /\ blocks = DefaultBlocks
  /\ fallible_streams = [index \in Fallible |-> NewStream(index)]
  /\ pending_streams = [index \in Fallible |-> "pending"]
  /\ failed_streams = [index \in Fallible |-> FALSE]
  /\ channel = <<>>
  /\ ticks = 0
  /\ panicked = NoPanic
  /\ last_sent = ""
  /\ nsent = 0
  /\ elapsed = DWELL
  /\ borrow = 0
  /\ running = "none"
  /\ position = [code \in Writers \cup {"main"} |-> IF code = "main" THEN "select" ELSE "await"]
  /\ generator = [index \in Starters |-> Unbuilt]
  /\ world = [index \in Starters |-> 1]

\* The supervisor at the top of its loop for the first time; no synchronizer
\* is looked into.
Init ==
  /\ SupervisorInit
  /\ kind = "bluez"
  /\ objects = {}
  /\ admissible = {}
  /\ membership = 0
  /\ property = [source \in {} |-> 0]
  /\ devices = {}
  /\ devices_properties = {}
  /\ paths = {}
  /\ previous_paths = {}
  /\ todo = {}
  /\ pc = "enumerate"
  /\ yielded = <<>>
  /\ skipped = {}
  /\ rejected = {}
  /\ earlier_paths = {}
  /\ delivered = 0
  /\ emitted = 0
  /\ fresh = FALSE
  /\ errors = 0
  /\ click_warning = "off"
  /\ called = "off"
  /\ stdout = "off"

Next ==
  \/ BluezItem
  \/ ClicksError
  \/ ClicksClick
  \/ PrometheusItem
  \/ UpowerItem
  \/ VolumeOnce
  \/ VolumeItem
  \/ VolumeEnd
  \/ \E index \in Fallible : EndOfStream(index)
  \/ ClockItem
  \/ ErrorReceive
  \/ ErrorTick

vars == <<supervisor_vars, sync_vars, borrow_vars, start_vars>>

\* The supervisor, each adapter seen as the stream of its statuses.
Spec == Init /\ [][Next]_vars

\* The supervisor while stdin delivers no record (it may still end): every
\* adapter that publishes a state, the clock and the error stream.
StatusNext ==
  \/ BluezItem
  \/ PrometheusItem
  \/ UpowerItem
  \/ VolumeOnce
  \/ VolumeItem
  \/ VolumeEnd
  \/ \E index \in Fallible : EndOfStream(index)
  \/ ClockItem
  \/ ErrorReceive
  \/ ErrorTick

StatusSpec == Init /\ [][StatusNext]_vars

\* The supervisor while the prometheus and upower adapters stay silent: the
\* records of stdin, the adapters a click acts on (bluez, volume), the clock
\* and the error stream.
InputNext ==
  \/ BluezItem
  \/ ClicksError
  \/ ClicksClick
  \/ VolumeOnce
  \/ VolumeItem
  \/ VolumeEnd
  \/ \E index \in Fallible : EndOfStream(index)
  \/ ClockItem
  \/ ErrorReceive
  \/ ErrorTick

InputSpec == Init /\ [][InputNext]_vars

\* The supervisor with the warnings of its Click arm recorded.
ClickInit ==
  /\ SupervisorInit
  /\ kind = "bluez"
  /\ objects = {}
  /\ admissible = {}
  /\ membership = 0
  /\ property = [source \in {} |-> 0]
  /\ devices = {}
  /\ devices_properties = {}
  /\ paths = {}
  /\ previous_paths = {}
  /\ todo = {}
  /\ pc = "enumerate"
  /\ yielded = <<>>
  /\ skipped = {}
  /\ rejected = {}
  /\ earlier_paths = {}
  /\ delivered = 0
  /\ emitted = 0
  /\ fresh = FALSE
  /\ errors = 0
  /\ click_warning = ""
  /\ called = "off"
  /\ stdout = "off"

ClickSpec == ClickInit /\ [][InputNext]_vars

\* The supervisor with the bluez calls of its Click arm recorded.
ToggleInit ==
  /\ SupervisorInit
  /\ kind = "bluez"
  /\ objects = {}
  /\ admissible = {}
  /\ membership = 0
  /\ property = [source \in {} |-> 0]
  /\ devices = {}
  /\ devices_properties = {}
  /\ paths = {}
  /\ previous_paths = {}
  /\ todo = {}
  /\ pc = "enumerate"
  /\ yielded = <<>>
  /\ skipped = {}
  /\ rejected = {}
  /\ earlier_paths = {}
  /\ delivered = 0
  /\ emitted = 0
  /\ fresh = FALSE
  /\ errors = 0
  /\ click_warning = "off"
  /\ called = <<>>
  /\ stdout = "off"

\* The sources the clicks are about and the streams that follow them in the
\* multiplexed set; the prometheus, upower and volume adapters stay silent
\* after volume's starting value.
ToggleNext ==
  \/ BluezItem
  \/ ClicksError
  \/ ClicksClick
  \/ VolumeOnce
  \/ \E index \in Fallible : EndOfStream(index)
  \/ ClockItem
  \/ ErrorReceive
  \/ ErrorTick

ToggleSpec == ToggleInit /\ [][ToggleNext]_vars

\* The supervisor with its writes to stdout recorded.
PublishInit ==
  /\ SupervisorInit
  /\ kind = "bluez"
  /\ objects = {}
  /\ admissible = {}
  /\ membership = 0
  /\ property = [source \in {} |-> 0]
  /\ devices = {}
  /\ devices_properties = {}
  /\ paths = {}
  /\ previous_paths = {}
  /\ todo = {}
  /\ pc = "enumerate"
  /\ yielded = <<>>
  /\ skipped = {}
  /\ rejected = {}
  /\ earlier_paths = {}
  /\ delivered = 0
  /\ emitted = 0
  /\ fresh = FALSE
  /\ errors = 0
  /\ click_warning = "off"
  /\ called = "off"
  /\ stdout = <<>>

PublishSpec == PublishInit /\ [][StatusNext]_vars

\* ------------------------------------------------- how the process stops
\* The loop of main has no break: the process stops when a panic unwinds
\* through block_on or when `?` returns an error from the async block.
UnwrapObjectPath == "unwrap: ObjectPath"
AssertSignalStream == "assert: End of stream (synchronizer)"
StdoutError == "Err: stdout"

\* The streams select_all polls, in the order of their indices: the
\* fallible streams chained with the infallible ones.
Multiplexed == <<"bluez", "clicks", "prometheus", "upower", "volume", "clock", "error">>

\* The map closure of the adapter at `index`.
Mapped(index, b, status) ==
  CASE index = BLUEZ -> bluez(b, status)
    [] index = PROMETHEUS -> prometheus(b, status)
    [] index = UPOWER -> upower(b, status)
    [] index = VOLUME -> volume(b, status)

\* A Click for a bluez device, button 1, whose instance is no object path:
\* zvariant::ObjectPath::try_from(path).unwrap() panics in the Click arm.
ClicksAborts ==
  /\ FirstReady(CLICKS)
  /\ fallible_streams[CLICKS] = "live"
  /\ \E click \in [name : {"bluez"}, instance : {"no path"}, button : {1}] :
       panicked' = UnwrapObjectPath
  /\ stdout' = NoOutput(stdout)
  /\ click_warning' = NoWarning(click_warning)
  /\ called' = NoCall(called)
  /\ NoSend
  /\ UNCHANGED <<blocks, fallible_streams, pending_streams, failed_streams, ticks, elapsed,
                 sync_vars, borrow_vars, start_vars>>

\* A signal stream of the synchronizer ends (the bus connection is closed):
\* its select_all returns None and assert!(rebuild.is_some()) panics while
\* the main loop polls the adapter.
NotificationEnds(index) ==
  /\ index \in {BLUEZ, UPOWER}
  /\ FirstReady(index)
  /\ fallible_streams[index] = "live"
  /\ panicked' = AssertSignalStream
  /\ stdout' = NoOutput(stdout)
  /\ click_warning' = NoWarning(click_warning)
  /\ called' = NoCall(called)
  /\ NoSend
  /\ UNCHANGED <<blocks, fallible_streams, pending_streams, failed_streams, ticks, elapsed,
                 sync_vars, borrow_vars, start_vars>>

\* The stream at `index` yields Publish, its closure having written the
\* store, and stdout.write_all fails in the Publish arm: `?` returns the error.
WriteFails(index) ==
  /\ FirstReady(index)
  /\ CASE index \in {BLUEZ, PROMETHEUS, UPOWER, VOLUME} ->
            /\ fallible_streams[index] \in {"once", "live"}
            /\ \E status \in Statuses(index) :
                 status.ok /\ blocks' = Mapped(index, blocks, status).blocks
            /\ fallible_streams' = [fallible_streams EXCEPT ![index] = "live"]
            /\ NoSend
            /\ UNCHANGED <<ticks, elapsed>>
       [] index = CLOCK ->
            /\ blocks' = clock(blocks, 1).blocks
            /\ NoSend
            /\ UNCHANGED <<fallible_streams, ticks, elapsed>>
       [] index = ERROR ->
            /\ channel # <<>>
            /\ ticks' = Received(ticks)
            /\ elapsed' = 0
            /\ blocks' = Shows(blocks, Head(channel))
            /\ channel' = Tail(channel)
            /\ nsent' = 0
            /\ last_sent' = ""
            /\ UNCHANGED fallible_streams
  /\ panicked' = StdoutError
  /\ stdout' = NoOutput(stdout)
  /\ click_warning' = NoWarning(click_warning)
  /\ called' = NoCall(called)
  /\ UNCHANGED <<pending_streams, failed_streams, sync_vars, borrow_vars, start_vars>>

StopNext ==
  \/ InputNext
  \/ ClicksAborts
  \/ \E index \in {BLUEZ, UPOWER} : NotificationEnds(index)
  \/ \E index \in {BLUEZ, PROMETHEUS, UPOWER, VOLUME, CLOCK, ERROR} : WriteFails(index)

\* The supervisor with the inputs that stop it: a click whose instance is
\* no object path, a bus connection that closes, a stdout that fails.
StopSpec == Init /\ [][StopNext]_vars

\* ------------------------------------------- the store inside its RefCell
\* One iteration of the main loop, step by step: the thread runs one piece of
\* code at a time, up to its next suspension point (an .await that is not
\* ready, or the yield of a generator).  The streams are polled by select_all
\* only, so only while the main loop waits in it.
AlreadyBorrowed == "already borrowed"

\* What these steps leave alone.
loop_vars == <<fallible_streams, pending_streams, failed_streams, channel, ticks, last_sent,
               nsent, elapsed, click_warning, called, sync_vars, start_vars>>

\* The index of a stream of the multiplexed set.
IndexOf(name) == (CHOOSE index \in DOMAIN Multiplexed : Multiplexed[index] = name) - 1

\* The store after the closure a generator passes to borrow_mut: the map
\* closure of an adapter on a status, the clock's time, and for the error
\* stream the error shown, the error cleared, or the test `is_some()`.
Writes(name, b) ==
  CASE name = "clock" -> {clock(b, 1).blocks}
    [] name = "error" -> {Shows(b, "ZBus"), [b EXCEPT !.error = ""], b}
    [] OTHER -> {Mapped(IndexOf(name), b, status).blocks : status \in Statuses(IndexOf(name))}

\* Fault injection: the store is handed out as a guard (a RefMut), which a
\* generator may hold across an .await.
CanSuspend_Guard(at) == at # "yield"

\* RefCellGuard hands the store to a closure (FnOnce, not async): the
\* code cannot suspend before the closure returns and the borrow is dropped.
CanSuspend(at) == at \notin {"closure", "yield"}

\* select_all polls the stream `code`: its generator goes on from where it stood.
Poll(code) ==
  /\ panicked = NoPanic
  /\ running = "none"
  /\ position["main"] = "select"
  /\ code \in Writers
  /\ running' = code
  /\ UNCHANGED <<blocks, panicked, stdout, borrow, position, loop_vars>>

\* The generator awaits something that is not ready: the poll returns Pending.
Pending(code) ==
  /\ running = code
  /\ code \in Writers
  /\ CanSuspend(position[code])
  /\ running' = "none"
  /\ UNCHANGED <<blocks, panicked, stdout, borrow, position, loop_vars>>

\* blocks.borrow_mut(..): RefCell::borrow_mut panics unless the flag is 0.
Enter(code) ==
  /\ running = code
  /\ code \in Writers
  /\ position[code] = "await"
  /\ IF borrow # 0
     THEN /\ panicked' = AlreadyBorrowed
          /\ running' = "none"
          /\ UNCHANGED <<borrow, position>>
     ELSE /\ borrow' = -1
          /\ position' = [position EXCEPT ![code] = "closure"]
          /\ UNCHANGED <<panicked, running>>
  /\ UNCHANGED <<blocks, stdout, loop_vars>>

\* The closure returns and the RefMut is dropped.  The generator then yields
\* its BlockUpdate; the error stream may instead go on (a second borrow_mut
\* on a tick, or a tick that yields nothing).
Leave(code) ==
  /\ running = code
  /\ code \in Writers
  /\ position[code] = "closure"
  /\ blocks' \in Writes(code, blocks)
  /\ borrow' = 0
  /\ \E next \in IF code = "error" THEN {"yield", "await"} ELSE {"yield"} :
       position' = [position EXCEPT ![code] = next]
  /\ UNCHANGED <<panicked, stdout, running, loop_vars>>

\* The generator yields: select_all returns and the main loop matches the
\* item.  Only Publish makes it read the store; the Rebuild arm awaits the
\* futures that build the streams.
Yield(code) ==
  /\ running = code
  /\ code \in Writers
  /\ position[code] = "yield"
  /\ running' = "main"
  /\ \E arm \in IF code = "error" THEN {"publish", "rebuild"} ELSE {"publish"} :
       position' = [position EXCEPT ![code] = "await", !["main"] = arm]
  /\ UNCHANGED <<blocks, panicked, stdout, borrow, loop_vars>>

\* blocks.borrow(..) of the Publish arm: RefCell::borrow panics if the store
\* is mutably borrowed.
MainBorrow ==
  /\ running = "main"
  /\ position["main"] = "publish"
  /\ IF borrow < 0
     THEN /\ panicked' = AlreadyBorrowed
          /\ running' = "none"
          /\ UNCHANGED <<borrow, position>>
     ELSE /\ borrow' = borrow + 1
          /\ position' = [position EXCEPT !["main"] = "closure"]
          /\ UNCHANGED <<panicked, running>>
  /\ UNCHANGED <<blocks, stdout, loop_vars>>

\* The closure clones the blocks into `bar` and returns: the Ref is dropped.
MainCollect ==
  /\ running = "main"
  /\ position["main"] = "closure"
  /\ stdout' = Written(stdout, Bar(blocks))
  /\ borrow' = borrow - 1
  /\ position' = [position EXCEPT !["main"] = "write"]
  /\ UNCHANGED <<blocks, panicked, running, loop_vars>>

\* stdout.write_all(..).await, or the .await of the Rebuild arm: the main
\* task is suspended, and goes back to select_all when it is resumed.
MainAwaits ==
  /\ running = "main"
  /\ position["main"] \in {"write", "rebuild"}
  /\ running' = "none"
  /\ position' = [position EXCEPT !["main"] = "select"]
  /\ UNCHANGED <<blocks, panicked, stdout, borrow, loop_vars>>

BorrowNext ==
  \/ \E code \in Writers : Poll(code)
  \/ \E code \in Writers : Pending(code)
  \/ \E code \in Writers : Enter(code)
  \/ \E code \in Writers : Leave(code)
  \/ \E code \in Writers : Yield(code)
  \/ MainBorrow
  \/ MainCollect
  \/ MainAwaits

\* The accesses to the store, in every interleaving of the sources.
BorrowSpec == PublishInit /\ [][BorrowNext]_vars

\* ----------------------------------------- an adapter from its construction
\* One generator at a time (they share nothing): its construction by
\* fallible_futures[index], then what each poll runs up to the next yield,
\* wait or return.  A wait is the .await of a notification (a signal of the
\* bus, a line of `pactl subscribe`) or of a timer tick; a query of the
\* current state is no wait.
StartError(index) ==
  CASE index = PROMETHEUS -> "Prometheus"
    [] index = VOLUME -> "IO"
    [] OTHER -> "ZBus"

\* What a query of the current state gives: the reading, or a failure.
Read(index) == {Ok(world[index]), Err(StartError(index))}

\* The generator yields `status`: the event is recorded with the number of
\* notifications and ticks consumed before it.
Yielded(g, status) ==
  IF Len(g.events) < MaxEvents
  THEN Append(g.events, [status |-> status, waited |-> g.waits])
  ELSE g.events

\* Fault injection: the generator waits before it reads anything
\* (timer.next().await at the top of the loop, no once(..) before the chain).
Entry_Waits(index) == "wait"

\* Where a generator stands when it is first polled: at the enumeration of
\* a synchronizer, at the queries of the metrics adapter, at the item of
\* once(..) for volume.
Entry(index) == "start"

Alone(index) ==
  /\ index \in Starters
  /\ \A other \in Starters \ {index} : generator[other].at = "unbuilt"

\* fallible_futures[index](&executor, &blocks).await, at the start and in
\* the Rebuild arm: volume::statuses() awaits status() for the item of
\* once(..); the other adapters only build their generator.
Build(index) ==
  /\ Alone(index)
  /\ generator[index].at \in {"unbuilt", "done"}
  /\ \E held \in IF index = VOLUME THEN {{status} : status \in Read(index)} ELSE {{}} :
       generator' = [generator EXCEPT ![index] =
                       [at |-> Entry(index),
                        built |-> IF generator[index].built < MaxBuilds
                                  THEN generator[index].built + 1 ELSE MaxBuilds,
                        held |-> held, waits |-> 0, events |-> <<>>]]
  /\ UNCHANGED <<world, supervisor_vars, sync_vars, borrow_vars>>

\* The first poll.  volume yields the item of once(..) and goes on with the
\* chained stream whatever it was; the others query the current state and
\* yield it, or yield the error of the first `?` and return.
Starts(index) ==
  /\ Alone(index)
  /\ generator[index].at = "start"
  /\ LET g == generator[index] IN
     \E status \in IF index = VOLUME THEN g.held ELSE Read(index) :
       generator' = [generator EXCEPT ![index] =
                       [g EXCEPT !.at = CASE index = VOLUME -> "spawn"
                                          [] status.ok -> "wait"
                                          [] OTHER -> "done",
                                 !.held = {},
                                 !.events = Yielded(g, status)]]
  /\ UNCHANGED <<world, supervisor_vars, sync_vars, borrow_vars>>

\* volume's chained stream is polled for the first time: `pactl subscribe`
\* is spawned (`?`) and its first line awaited.
Spawns(ok) ==
  /\ Alone(VOLUME)
  /\ generator[VOLUME].at = "spawn"
  /\ LET g == generator[VOLUME] IN
     generator' = [generator EXCEPT ![VOLUME] =
                     IF ok THEN [g EXCEPT !.at = "wait"]
                     ELSE [g EXCEPT !.at = "done", !.events = Yielded(g, Err("IO"))]]
  /\ UNCHANGED <<world, supervisor_vars, sync_vars, borrow_vars>>

\* A notification or a tick ends the wait: the generator queries the
\* current state again and yields it, or yields an error and returns.
Wakes(index) ==
  /\ Alone(index)
  /\ generator[index].at = "wait"
  /\ LET g == [generator[index] EXCEPT
                 !.waits = IF @ < MaxWaits THEN @ + 1 ELSE @] IN
     \E status \in Read(index) :
       generator' = [generator EXCEPT ![index] =
                       [g EXCEPT !.at = IF status.ok THEN "wait" ELSE "done",
                                 !.events = Yielded(g, status)]]
  /\ UNCHANGED <<world, supervisor_vars, sync_vars, borrow_vars>>

\* What the adapter watches changes.
Changes(index, reading) ==
  /\ Alone(index)
  /\ generator[index].at # "unbuilt"
  /\ world[index] # reading
  /\ world' = [world EXCEPT ![index] = reading]
  /\ UNCHANGED <<generator, supervisor_vars, sync_vars, borrow_vars>>

StartNext ==
  \/ \E index \in Starters : Build(index)
  \/ \E index \in Starters : Starts(index)
  \/ \E ok \in BOOLEAN : Spawns(ok)
  \/ \E index \in Starters : Wakes(index)
  \/ \E index \in Starters, reading \in Readings : Changes(index, reading)

\* Each adapter alone, constructed and reconstructed.
StartSpec == Init /\ [][StartNext]_vars

TypeOK ==
  /\ fallible_streams \in [Fallible -> StreamStates]
  /\ pending_streams \in [Fallible -> StreamStates]
  /\ failed_streams \in [Fallible -> BOOLEAN]
  /\ Len(channel) <= CAPACITY
  /\ ticks \in 0..(DWELL - 1)

\* ============================================================ synchronizer
\* dbus::bluez::statuses() and dbus::upower::statuses(): the same generator
\* but for the admission property (Paired / IsPresent), the parent object's
\* PropertiesChanged subscription (bluez only) and the sort (upower only).
\*
\* One action is the code between two points where the bus can move: the
\* enumeration with the removal of the departed paths, the visit of one new
\* path, the read of every tracked device with the yield, and the select_all.

Paths == 1..MaxPaths
\* The source of the parent object's PropertiesChanged signals (adapter_properties).
ADAPTER == 0

\* Device1::name / Device::model: names ascend against the paths.
DeviceName(path) == 0 - path

\* The sequences listing each element of `set` once: the orders in which a
\* HashMap may be iterated.
Orders(set) ==
  {order \in [1..Cardinality(set) -> set] : \A i, j \in 1..Cardinality(set) : order[i] = order[j] => i = j}

\* statuses.sort_by(|status1, status2| status1.device.cmp(&status2.device))
IsSorted(order) == \A i, j \in 1..Len(order) : i < j => DeviceName(order[i]) <= DeviceName(order[j])
sort_by(order) == CHOOSE sorted \in Orders({order[i] : i \in 1..Len(order)}) : IsSorted(sorted)

\* The subscriptions a PropertiesChanged signal can be queued on.
Subscriptions == (IF kind = "bluez" THEN {ADAPTER} ELSE {}) \cup devices_properties

\* A signal queued on every subscription in `sources`.
Signalled(queue, sources) ==
  [source \in DOMAIN queue |-> IF source \in sources THEN queue[source] + 1 ELSE queue[source]]

SyncRunning == pc \notin {"done"}

RECURSIVE Total(_, _)
Total(queue, sources) ==
  IF sources = {} THEN 0
  ELSE LET source == CHOOSE one \in sources : TRUE IN queue[source] + Total(queue, sources \ {source})

\* The bus can hold one more signal.
Room == membership + Total(property, DOMAIN property) < MaxSignals

\* --------------------------------------------------------------- the bus
\* A device object appears, with its admission property true or false.
ObjectAdded(path, admitted) ==
  /\ SyncRunning
  /\ path \notin objects
  /\ Room
  /\ objects' = objects \cup {path}
  /\ admissible' = IF admitted THEN admissible \cup {path} ELSE admissible \ {path}
  /\ membership' = membership + 1
  /\ UNCHANGED <<errors, fresh, emitted, delivered, earlier_paths, kind, property, devices,
                 devices_properties, paths, previous_paths, todo, pc, yielded, skipped,
                 rejected, supervisor_vars, borrow_vars, start_vars>>

\* A device object disappears: an object that appears at its path later is
\* another resource.
ObjectRemoved(path) ==
  /\ SyncRunning
  /\ path \in objects
  /\ Room
  /\ objects' = objects \ {path}
  /\ admissible' = admissible \ {path}
  /\ membership' = membership + 1
  /\ rejected' = rejected \ {path}
  /\ UNCHANGED <<errors, fresh, emitted, delivered, earlier_paths, kind, property, devices,
                 devices_properties, paths, previous_paths, todo, pc, yielded, skipped,
                 supervisor_vars, borrow_vars, start_vars>>

\* A property of `source` changes: PropertiesChanged reaches its subscription,
\* if there is one.  `flips` says the admission property is the one that changed.
PropertiesChanged(source, flips) ==
  /\ SyncRunning
  /\ source \in objects \cup (IF kind = "bluez" THEN {ADAPTER} ELSE {})
  /\ flips => source # ADAPTER
  /\ source \in DOMAIN property => Room
  /\ admissible' =
       IF flips
       THEN (IF source \in admissible THEN admissible \ {source} ELSE admissible \cup {source})
       ELSE admissible
  /\ property' = Signalled(property, {source})
  /\ source \in DOMAIN property \/ flips
  /\ UNCHANGED <<errors, fresh, emitted, delivered, earlier_paths, kind, objects, membership,
                 devices, devices_properties, paths, previous_paths, todo, pc, yielded, skipped,
                 rejected, supervisor_vars, borrow_vars, start_vars>>

\* ------------------------------------------------------------ the generator
\* Fault injection: no path ever departs; every path departs.
Departed_None(previous, enumerated) == {}
Departed_All(previous, enumerated) == previous

\* previous_paths.difference(&paths)
Departed(previous, enumerated) == previous \ enumerated

\* get_managed_objects / enumerate_devices, then the departed paths leave both maps.
\* Fault injection: the subscription of a departed device is kept.
Unsubscribed_Keeps(map, departed) == map

\* devices_properties.remove(path) for each path of
\* previous_paths.difference(&paths)
Unsubscribed(map, departed) == map \ departed

Enumerate ==
  /\ pc = "enumerate"
  /\ paths' = objects
  /\ previous_paths' = devices
  /\ devices' = devices \ Departed(devices, objects)
  /\ devices_properties' = Unsubscribed(devices_properties, Departed(devices, objects))
  /\ property' = [source \in Unsubscribed(DOMAIN property, Departed(devices, objects)) |->
                    property[source]]
  /\ todo' = objects \ devices
  /\ skipped' = {}
  /\ pc' = IF objects \ devices = {} THEN "read" ELSE "admit"
  /\ fresh' = (objects \ devices = {})
  /\ UNCHANGED <<errors, emitted, delivered, earlier_paths, kind, objects, admissible,
                 membership, yielded, rejected, supervisor_vars, borrow_vars, start_vars>>

\* The admission filter: device.paired() / device.is_present().
Admitted(path) == path \in admissible

\* Fault injection: the `continue` is missing.
Tracked_NoContinue(map, path, admitted) == map \cup {path}

\* `continue` for a path the filter rejects, insert(path, ..) for the others.
Tracked(map, path, admitted) == IF admitted THEN map \cup {path} ELSE map

\* Fault injection: no subscription is made for a device.
Subscribed_Never(map, path, admitted) == map

\* devices_properties.insert(path, properties.receive_properties_changed()..),
\* after the `continue` of a rejected path.
Subscribed(map, path, admitted) == Tracked(map, path, admitted)

\* One path of paths.difference(&previous_paths): the proxy is built, the
\* filter is read, and an admitted path gets its subscription and its entry.
Visit(path) ==
  /\ pc = "admit"
  /\ path \in todo
  /\ todo' = todo \ {path}
  /\ pc' = IF todo \ {path} = {} THEN "read" ELSE "admit"
  /\ devices_properties' = Subscribed(devices_properties, path, Admitted(path))
  /\ devices' = Tracked(devices, path, Admitted(path))
  /\ property' = [source \in DOMAIN property \cup Subscribed({}, path, Admitted(path)) |->
                    IF source = path THEN 0 ELSE property[source]]
  /\ skipped' = IF Admitted(path) THEN skipped ELSE skipped \cup {path}
  /\ rejected' = IF Admitted(path) THEN rejected ELSE rejected \cup {path}
  /\ fresh' = (todo \ {path} = {})
  /\ UNCHANGED <<errors, emitted, delivered, earlier_paths, kind, objects, admissible,
                 membership, paths, previous_paths, yielded, supervisor_vars, borrow_vars, start_vars>>

\* The inner loop's body up to the yield: every tracked device is read, in
\* the HashMap's order; upower sorts by name.
Snapshot ==
  /\ pc = "read"
  /\ \E order \in Orders(devices) :
       yielded' = IF kind = "upower" THEN sort_by(order) ELSE order
  /\ pc' = "wait"
  /\ earlier_paths' = {}
  /\ emitted' = emitted + 1
  /\ UNCHANGED <<errors, fresh, delivered, kind, objects, admissible, membership, property,
                 devices, devices_properties, paths, previous_paths, todo, skipped, rejected,
                 supervisor_vars, borrow_vars, start_vars>>

\* Fault injection: the break is missing.
AfterSignal_NoBreak(rebuild) == "read"

\* `if let Some(true) = rebuild { break; }`: where the generator goes on.
AfterSignal(rebuild) == IF rebuild THEN "enumerate" ELSE "read"

\* select_all returns a membership signal (true): break, and the outer loop
\* starts again with new locals.
WaitMembership ==
  /\ pc = "wait"
  /\ membership > 0
  /\ membership' = membership - 1
  /\ pc' = AfterSignal(TRUE)
  /\ paths' = {}
  /\ previous_paths' = {}
  /\ skipped' = {}
  /\ earlier_paths' = paths
  /\ delivered' = 0
  /\ emitted' = 0
  /\ fresh' = FALSE
  /\ UNCHANGED <<errors, kind, objects, admissible, property, devices, devices_properties, todo,
                 yielded, rejected, supervisor_vars, borrow_vars, start_vars>>

\* Fault injection: the stream hands over all its queued signals as one item.
Delivered_All(queue, source) == queue[source]

\* device_properties.next(): one item of the stream is one signal.
Delivered(queue, source) == 1

\* select_all returns a PropertiesChanged signal (false): the inner loop again.
WaitProperties(source) ==
  /\ pc = "wait"
  /\ source \in DOMAIN property
  /\ property[source] > 0
  /\ delivered < MaxDelivered
  /\ property' = [property EXCEPT ![source] = property[source] - Delivered(property, source)]
  /\ pc' = AfterSignal(FALSE)
  /\ delivered' = delivered + Delivered(property, source)
  /\ UNCHANGED <<errors, fresh, emitted, earlier_paths, kind, objects, admissible, membership,
                 devices, devices_properties, paths, previous_paths, todo, yielded, skipped,
                 rejected, supervisor_vars, borrow_vars, start_vars>>

\* Fault injection: the failed pass is started again.
AfterError_Retries(at) == "enumerate"

\* `?` in stream!: the error is yielded and the generator returns.
AfterError(at) == "done"

\* A bus call fails: `?` yields the error and the generator returns, which
\* drops its maps and its subscriptions.
BusError ==
  /\ pc \in {"enumerate", "admit", "read"}
  /\ errors < 2
  /\ pc' = AfterError(pc)
  /\ devices' = {}
  /\ devices_properties' = {}
  /\ property' = [source \in {} |-> 0]
  /\ membership' = 0
  /\ paths' = {}
  /\ previous_paths' = {}
  /\ todo' = {}
  /\ earlier_paths' = {}
  /\ delivered' = 0
  /\ emitted' = 0
  /\ fresh' = FALSE
  /\ errors' = errors + 1
  /\ UNCHANGED <<kind, objects, admissible, yielded, skipped, rejected, supervisor_vars, borrow_vars, start_vars>>

\* The generator has subscribed to the membership signals and, for bluez, to
\* the adapter's PropertiesChanged; the bus holds any objects.
SyncInit ==
  /\ SupervisorInit
  /\ kind \in {"bluez", "upower"}
  /\ objects \in SUBSET Paths
  /\ admissible \in SUBSET objects
  /\ membership = 0
  /\ property = [source \in (IF kind = "bluez" THEN {ADAPTER} ELSE {}) |-> 0]
  /\ devices = {}
  /\ devices_properties = {}
  /\ paths = {}
  /\ previous_paths = {}
  /\ todo = {}
  /\ pc = "enumerate"
  /\ yielded = <<>>
  /\ skipped = {}
  /\ rejected = {}
  /\ earlier_paths = {}
  /\ delivered = 0
  /\ emitted = 0
  /\ fresh = FALSE
  /\ errors = 0
  /\ click_warning = "off"
  /\ called = "off"
  /\ stdout = "off"

SyncNext ==
  \/ \E path \in Paths, admitted \in BOOLEAN : ObjectAdded(path, admitted)
  \/ \E path \in Paths : ObjectRemoved(path)
  \/ \E source \in Paths \cup {ADAPTER}, flips \in BOOLEAN : PropertiesChanged(source, flips)
  \/ Enumerate
  \/ \E path \in Paths : Visit(path)
  \/ Snapshot
  \/ WaitMembership
  \/ \E source \in Paths \cup {ADAPTER} : WaitProperties(source)
  \/ BusError

\* One synchronizer against its bus.
SyncSpec == SyncInit /\ [][SyncNext]_vars

\* ================================================================ fairness
\* The main loop never stops polling: a stream that answers at once (a
\* generator that has returned, volume's starting value) is served, and so
\* is the error stream, whose receiver and 1 s timer are always polled when
\* no stream before it is ready.  Nothing is assumed of the outside world:
\* no adapter has to yield, no query has to succeed.
GeneratorReturns(index) == fallible_streams[index] = "erred" /\ EndOfStream(index)

Fairness ==
  /\ WF_vars(ErrorReceive)
  /\ WF_vars(ErrorTick)
  /\ WF_vars(VolumeOnce)
  /\ \A index \in Fallible : WF_vars(GeneratorReturns(index))

FairSpec == StatusSpec /\ Fairness

\* ================================================================== claims
\* The Snapshot Store entries the source at `index` writes.
Entries(b, index) ==
  CASE index = BLUEZ -> <<b.bluez>>
    [] index = PROMETHEUS -> <<b.cpu, b.download, b.temperature, b.upload, b.wifi>>
    [] index = UPOWER -> <<b.upower>>
    [] index = VOLUME -> <<b.volume>>
    [] OTHER -> <<>>

\* From its terminal error until it is rebuilt.
Failing(index) == fallible_streams[index] = "erred" \/ failed_streams[index]

\* The step is an iteration in which the source at `index` yields Ok(..),
\* handled as Publish.
PublishFrom(index) ==
  CASE index = BLUEZ -> \E status \in BluezStatuses : status.ok /\ BluezYields(status)
    [] index = PROMETHEUS -> \E status \in PrometheusStatuses : status.ok /\ PrometheusYields(status)
    [] index = UPOWER -> \E status \in UpowerStatuses : status.ok /\ UpowerYields(status)
    [] index = VOLUME ->
         \E status \in VolumeStatuses : status.ok /\ (VolumeStarts(status) \/ VolumeYields(status))
    [] OTHER -> FALSE

\* The step is the tick that completes the dwell: the error stream yields
\* Rebuild and the supervisor handles it.
RebuildStep == blocks.error # "" /\ ticks = DWELL - 1 /\ ticks' = 0 /\ blocks'.error = ""

C2_NoPublishWhileQuarantined ==
  [][\A index \in Fallible : failed_streams[index] => ~PublishFrom(index)]_vars

\* A source is quarantined while the clock goes on publishing.
C2_Witness == failed_streams[UPOWER] /\ blocks.upower = 0 /\ blocks.clock # 0

\* C7: for every fallible index, of the slot's two streams exactly one is the
\* placeholder, the slot holds a stream that has not ended, and
\* failed_streams[index] is true exactly when the slot holds the placeholder.
C7_OneOfLiveAndPlaceholder ==
  \A index \in Fallible :
    /\ failed_streams[index] <=> fallible_streams[index] = "pending"
    /\ failed_streams[index] <=> pending_streams[index] # "pending"
    /\ ~failed_streams[index] => fallible_streams[index] \in {"once", "live", "erred"}

\* Some slot holds the placeholder and some slot its live stream.
C7_Witness ==
  /\ \E index \in Fallible : failed_streams[index] /\ fallible_streams[index] = "pending"
  /\ \E index \in Fallible : ~failed_streams[index] /\ fallible_streams[index] = "live"

\* C8: the assertion of the None arm never fails, and no stream that has
\* returned None stays in the multiplexed set, so that an activation of a
\* source gives at most one end of stream.
C8_EndOfStreamOnce ==
  /\ panicked = NoPanic
  /\ \A index \in Fallible : fallible_streams[index] # "ended"

\* Two sources have ended, each once, and sit in pending_streams.
C8_Witness ==
  /\ pending_streams[BLUEZ] = "ended"
  /\ pending_streams[CLICKS] = "ended"
  /\ panicked = NoPanic

\* C9: handling Rebuild puts a new stream in the slot of every quarantined
\* source and clears its flag, so that none is quarantined afterwards, and
\* leaves both streams of every other source as they were.
C9_RebuildAllQuarantined ==
  [][RebuildStep =>
       \A index \in Fallible :
         /\ ~failed_streams'[index]
         /\ failed_streams[index] =>
              /\ fallible_streams'[index] = NewStream(index)
              /\ pending_streams'[index] = "pending"
         /\ ~failed_streams[index] =>
              /\ fallible_streams'[index] = fallible_streams[index]
              /\ pending_streams'[index] = pending_streams[index]]_vars

\* Volume's starting value is due again although the clock has published:
\* volume was rebuilt.  No source is quarantined.
C9_Witness ==
  /\ fallible_streams[VOLUME] = "once"
  /\ blocks.clock # 0
  /\ blocks.error = ""
  /\ \A index \in Fallible : ~failed_streams[index]

\* C10: the channel never holds more than one error, and after one or more
\* writes with no read in between it holds the last error written.
C10_LastErrorWins ==
  /\ Len(channel) <= CAPACITY
  /\ nsent = 0 => channel = <<>>
  /\ nsent >= 1 => channel = <<last_sent>>

\* Two writes with no read in between.
C10_Witness == nsent >= 2 /\ channel = <<last_sent>>

\* ------------------------------------------------------- the synchronizers
Range(sequence) == {sequence[i] : i \in 1..Len(sequence)}

\* The step ends a resynchronization pass: the last new path has been
\* visited, or the enumeration found no new path.
PassEnds == pc \in {"enumerate", "admit"} /\ pc' = "read"

\* What the filter says of a path at the end of the pass: what the pass read
\* for a path it visited, what the bus holds for a path it did not.
AdmittedAtPassEnd(path) ==
  IF path \in previous_paths' THEN path \in admissible' ELSE path \notin skipped'

\* C3: at the end of each resynchronization pass the tracked ids are exactly
\* the ids of the latest enumeration that satisfy the admission filter.
C3_TrackedExactlyAdmitted ==
  [][PassEnds => devices' = {path \in paths' : AdmittedAtPassEnd(path)}]_vars

\* C4, as stated: a resource the filter rejected in some pass is in no
\* snapshot emitted afterwards, whatever happens on the bus.
C4_RejectedNeverEmitted == pc = "wait" => Range(yielded) \cap rejected = {}

\* C4, amended: a resource the filter rejected in a pass is neither tracked
\* nor in any snapshot emitted until the next pass starts; every later pass
\* reads the filter of an untracked resource again and tracks it when the
\* filter admits it.
C4_RejectedUntilNextPass ==
  /\ [](pc \in {"read", "wait"} => devices \cap skipped = {})
  /\ [](pc = "wait" => Range(yielded) \cap skipped = {})
  /\ [][\A path \in rejected :
          pc = "admit" /\ path \in todo /\ path \notin todo' /\ pc' # "done" =>
            (path \in devices' <=> path \in admissible)]_vars

\* A snapshot was emitted in a pass that rejected a resource and admitted
\* another.
C4_Witness == pc = "wait" /\ skipped # {} /\ yielded # <<>>

\* ---------------------------------------------------------------- rebuilds
\* C5, as stated: rebuild pulses come periodically whatever the sources and
\* the errors do, so that every quarantined source, ended after an error or
\* silently, is eventually reconstructed.
C5_EventuallyReconstructed ==
  \A index \in Fallible : failed_streams[index] ~> ~failed_streams[index]

\* C5, amended: a quarantined source returns to Active only when the
\* supervisor handles a Rebuild, which the error stream yields on the tick
\* that completes ten ticks counted while an error is displayed, the count
\* starting again at each error received; once an error is displayed and
\* none is waiting, every quarantined source is eventually reconstructed,
\* unless another error is written first.
C5_ReconstructedAfterDwell ==
  /\ [][\A index \in Fallible :
          failed_streams[index] /\ ~failed_streams'[index] => RebuildStep]_vars
  /\ (blocks.error # "" /\ channel = <<>>)
       ~> ((\A index \in Fallible : ~failed_streams[index]) \/ channel # <<>>)

\* A source is quarantined and the next tick completes the dwell.
C5_Witness ==
  /\ ticks = DWELL - 1
  /\ blocks.error # ""
  /\ channel = <<>>
  /\ failed_streams[BLUEZ]

\* C6, as stated: after a transport error of the prometheus adapter, the
\* adapter is quarantined, reconstructed, and eventually publishes again.
C6_EventuallyPublishesAgain ==
  /\ fallible_streams[PROMETHEUS] = "erred" ~> failed_streams[PROMETHEUS]
  /\ fallible_streams[PROMETHEUS] = "erred" ~> blocks.cpu # 0

\* C6, amended: the iteration in which the prometheus adapter yields a
\* transport error writes the error to the Error Channel; the adapter is then
\* quarantined; once its error is displayed and none is waiting it is
\* eventually reconstructed, by the handling of a Rebuild, unless another
\* error is written first; reconstructed, it polls again (its next event is a
\* snapshot or another error).
C6_ForwardedQuarantinedRebuilt ==
  /\ [][fallible_streams[PROMETHEUS] = "live" /\ fallible_streams'[PROMETHEUS] = "erred" =>
          /\ channel' = <<"Prometheus">>
          /\ blocks'.cpu = 0]_vars
  /\ fallible_streams[PROMETHEUS] = "erred" ~> failed_streams[PROMETHEUS]
  /\ (failed_streams[PROMETHEUS] /\ blocks.error # "" /\ channel = <<>>)
       ~> (fallible_streams[PROMETHEUS] = "live" \/ channel # <<>>)
  /\ [][failed_streams[PROMETHEUS] /\ RebuildStep =>
          /\ fallible_streams'[PROMETHEUS] = "live"
          /\ ~failed_streams'[PROMETHEUS]]_vars

\* The adapter's own error is displayed while the adapter is quarantined.
C6_Witness ==
  /\ failed_streams[PROMETHEUS]
  /\ blocks.error = "Prometheus"
  /\ channel = <<>>

\* ------------------------------------------------------------ the adapters
\* The step is an iteration in which the adapter at `index` yields an Error.
ErrorFrom(index) ==
  CASE index = BLUEZ -> \E status \in BluezStatuses : ~status.ok /\ BluezYields(status)
    [] index = CLICKS -> ClicksError
    [] index = PROMETHEUS -> \E status \in PrometheusStatuses : ~status.ok /\ PrometheusYields(status)
    [] index = UPOWER -> \E status \in UpowerStatuses : ~status.ok /\ UpowerYields(status)
    [] index = VOLUME ->
         \/ \E status \in VolumeStatuses : ~status.ok /\ (VolumeStarts(status) \/ VolumeYields(status))
         \/ VolumeEnd
    [] OTHER -> FALSE

\* C11: every adapter's sequence terminates on its first error: once an
\* adapter has yielded an Error, the next thing it produces is the end of
\* its stream.
C11_EndsOnFirstError ==
  [][\A index \in Fallible : ErrorFrom(index) => fallible_streams'[index] = "erred"]_vars

\* C12: the entries of every snapshot a bus synchronizer (bluez, upower)
\* yields are in ascending order of name, whatever the order in which the
\* tracked map is iterated.
C12_SnapshotSortedByName == pc = "wait" => IsSorted(yielded)

\* The step is the enumeration, or the visit of a new path, of a pass whose
\* enumeration result is the one of the pass before.
SameEnumeration ==
  \/ pc = "enumerate" /\ pc' \in {"admit", "read"} /\ paths' = earlier_paths
  \/ pc = "admit" /\ todo' # todo /\ pc' \in {"admit", "read"} /\ paths = earlier_paths

\* C13: when two consecutive enumerations return the same ids, the second
\* pass drops no tracked entry and recreates no subscription: every resource
\* tracked before the pass keeps its proxy and its subscription, with the
\* signals queued on it.
C13_SameEnumerationKeepsEntries ==
  [][SameEnumeration =>
       \A path \in (IF pc = "enumerate" THEN devices ELSE previous_paths) :
         /\ path \in devices'
         /\ path \in devices_properties'
         /\ path \in devices_properties
         /\ property'[path] = property[path]]_vars

\* A second pass has enumerated what the first had: the devices tracked
\* before it are the tracked ones, one with a signal queued on its subscription.
C13_Witness ==
  /\ pc = "read"
  /\ earlier_paths = paths
  /\ previous_paths # {}
  /\ devices = previous_paths
  /\ \E path \in previous_paths : property[path] > 0

\* C14: k PropertiesChanged signals delivered with no membership signal give
\* exactly k more snapshots than the one that followed the pass, each listing
\* every tracked resource, and their delivery starts no enumeration and
\* changes nothing in the tracked map.
C14_OneSnapshotPerSignal ==
  /\ [](pc = "wait" => emitted = delivered + 1)
  /\ [](pc = "read" => emitted = delivered)
  /\ [][delivered' > delivered =>
          /\ pc' = "read"
          /\ devices' = devices
          /\ devices_properties' = devices_properties
          /\ paths' = paths]_vars
  /\ [][emitted' > emitted => Range(yielded') = devices /\ Len(yielded') = Cardinality(devices)]_vars

\* MaxDelivered signals were delivered after a pass, and one snapshot more
\* than that was yielded.
C14_Witness == pc = "wait" /\ delivered = MaxDelivered /\ emitted = MaxDelivered + 1 /\ devices # {}

\* C15: after the synchronizer has taken a membership signal, it enumerates
\* and resynchronizes its maps before it yields its next snapshot.
C15_ResyncBeforeNextSnapshot ==
  /\ [](pc \in {"read", "wait"} => fresh)
  /\ [][membership' < membership /\ pc' # "done" => pc' = "enumerate" /\ ~fresh']_vars
  /\ [][emitted' > emitted => fresh /\ devices \subseteq paths]_vars

\* A snapshot was yielded after a second pass, which a membership signal started.
C15_Witness == pc = "wait" /\ fresh /\ emitted = 1 /\ previous_paths # {} /\ paths # previous_paths

\* C16: every snapshot a synchronizer yields has exactly one entry per
\* resource of its tracked map and none for a resource absent from the
\* latest enumeration: after {A, B} then {A}, both admitted, the map holds A
\* only and the snapshot is [A].
C16_SnapshotIsTrackedMap ==
  pc = "wait" =>
    /\ Len(yielded) = Cardinality(devices)
    /\ Range(yielded) = devices
    /\ devices \subseteq paths
    /\ devices_properties = devices

\* Two devices were tracked, the latest enumeration held one of them, and
\* the snapshot lists that one.
C16_Witness ==
  /\ pc = "wait"
  /\ Cardinality(previous_paths) = 2
  /\ Cardinality(paths) = 1
  /\ paths \subseteq previous_paths
  /\ yielded = <<CHOOSE path \in paths : TRUE>>

\* The step visits `path`: its proxy is built and its admission property read.
Visited(path) == pc = "admit" /\ path \in todo /\ path \notin todo' /\ pc' # "done"

\* C17, as stated: no property of a newly added resource is read before the
\* resource's change subscription exists.
C17_NoReadBeforeSubscription ==
  [][\A path \in Paths : Visited(path) => path \in devices_properties]_vars

\* C17, amended: the admission property (Paired / IsPresent) of a newly
\* added resource is read before any subscription to it exists, the
\* subscription being made only if the property admits the resource; no
\* other property of the resource is read before its subscription exists:
\* every resource a snapshot reads is subscribed to.
C17_NoSnapshotReadBeforeSubscription ==
  /\ [](devices \subseteq devices_properties)
  /\ [][\A path \in Paths :
          Visited(path) =>
            /\ path \notin devices_properties
            /\ path \in devices_properties' <=> path \in admissible
            /\ path \in devices' => path \in devices_properties']_vars
  /\ [][emitted' > emitted => Range(yielded') \subseteq devices_properties]_vars

\* A pass has admitted a new resource, subscribed to, and rejected another;
\* the snapshot has not been read yet.
C17_Witness ==
  /\ pc = "read"
  /\ emitted = 0
  /\ devices \ previous_paths # {}
  /\ devices \subseteq devices_properties
  /\ skipped # {}

\* C18: a bus call that fails during the enumeration, the admission, a
\* subscription or the reading of a snapshot aborts the pass: the
\* synchronizer yields one error, yields nothing and calls nothing
\* afterwards (no retry), and its sequence ends.
C18_BusErrorIsTerminal ==
  /\ [](errors <= 1)
  /\ [](pc = "done" <=> errors = 1)
  /\ [][errors' > errors =>
          /\ pc \in {"enumerate", "admit", "read"}
          /\ pc' = "done"
          /\ yielded' = yielded
          /\ emitted' <= emitted]_vars
  /\ [][pc = "done" =>
          UNCHANGED <<pc, errors, yielded, emitted, delivered, devices, devices_properties,
                      paths, previous_paths, todo, membership, property>>]_vars

\* The sequence has ended on an error of a pass that followed a snapshot.
C18_Witness == pc = "done" /\ errors = 1 /\ yielded # <<>> /\ devices = {}

\* ------------------------------------------------------------- user input
\* C19: handling a user-input record whose name is neither "bluez" nor
\* "volume" invokes no control action, writes nothing to the Error Channel,
\* and changes neither the Snapshot Store nor the quarantine of any source.
C19_UnrecognizedClickIsIgnored ==
  /\ [](\A click \in Clicks : click.name \notin {"bluez", "volume"} => Control(click) = "none")
  /\ [][click_warning' = "Unhandled event" =>
          UNCHANGED <<channel, last_sent, nsent, blocks, failed_streams, fallible_streams,
                      pending_streams, panicked, ticks>>]_vars

\* A record of an unrecognized name has just been handled, while a source
\* was quarantined and an error displayed.
C19_Witness ==
  /\ click_warning = "Unhandled event"
  /\ failed_streams[BLUEZ]
  /\ blocks.error # ""
  /\ panicked = NoPanic

\* C20: when the control action of a click (bluez toggle, volume mute, up,
\* down) fails, the failure is written to the Error Channel, the supervisor
\* goes on, and no source becomes quarantined by it.
C20_ControlFailureIsReported ==
  [][click_warning' = "Failed to handle event" =>
       /\ last_sent' \in {"ZBus", "IO"}
       /\ channel' = <<last_sent'>>
       /\ nsent' >= 1
       /\ panicked' = NoPanic
       /\ UNCHANGED <<blocks, failed_streams, fallible_streams, pending_streams, ticks>>]_vars

\* The toggle of a bluez device has just failed: its error waits in the
\* channel and every source is active.
C20_Witness ==
  /\ click_warning = "Failed to handle event"
  /\ channel = <<"ZBus">>
  /\ \A index \in Fallible : ~failed_streams[index] /\ fallible_streams[index] = "live"

\* C23: the displayed error is cleared exactly when DWELL ticks have elapsed
\* since the last error was received: an error is displayed exactly while
\* fewer than DWELL ticks have followed the last receive, the tick count is
\* the number of those ticks, a receive shows the received error and sets the
\* count to 0, and the entry is cleared by the DWELL-th tick only.
C23_ClearedAtTenthTick ==
  /\ [](blocks.error # "" <=> elapsed < DWELL)
  /\ [](blocks.error # "" => ticks = elapsed)
  /\ [](blocks.error = "" => ticks = 0)
  /\ [][channel # <<>> /\ channel' = Tail(channel) =>
          ticks' = 0 /\ blocks'.error = Head(channel)]_vars
  /\ [][blocks.error # "" /\ blocks'.error = "" =>
          elapsed = DWELL - 1 /\ elapsed' = DWELL /\ ticks' = 0 /\ channel = <<>>]_vars

\* Nine ticks have followed the receive of bluez's error, which is still
\* displayed: the next tick clears it.
C23_Witness ==
  /\ blocks.error = "ZBus"
  /\ failed_streams[BLUEZ]
  /\ elapsed = DWELL - 1
  /\ ticks = DWELL - 1
  /\ channel = <<>>

\* The step in which the adapter at `index` yields `status`.
Yields(index, status) ==
  CASE index = BLUEZ -> BluezYields(status)
    [] index = PROMETHEUS -> PrometheusYields(status)
    [] index = UPOWER -> UpowerYields(status)
    [] index = VOLUME -> VolumeStarts(status) \/ VolumeYields(status)
    [] OTHER -> FALSE

\* The entries of Entries(b, index), by name, and what Ok(value) projects to.
EntryNames(index) ==
  CASE index = BLUEZ -> <<"bluez">>
    [] index = PROMETHEUS -> <<"cpu", "download", "temperature", "upload", "wifi">>
    [] index = UPOWER -> <<"upower">>
    [] index = VOLUME -> <<"volume">>
    [] OTHER -> <<>>

Projection(index, value) ==
  IF index = PROMETHEUS
  THEN <<value.cpu, value.download, value.temperature, value.upload, value.wifi>>
  ELSE <<value>>

\* The full_text the bar shows for the entry `name`, "" when it shows none.
Shown(bar, name) ==
  IF \E k \in 1..Len(bar) : bar[k].name = name
  THEN bar[CHOOSE k \in 1..Len(bar) : bar[k].name = name].full_text
  ELSE ""

\* C26: when a source yields Ok(value), its entries are overwritten, all of
\* them, with the projection of the value, and that iteration writes one
\* output, which shows the new value: no iteration in which the source
\* yields Ok(value) ends otherwise.  The output of an iteration shows every
\* entry as the store holds it after the closure's write, no iteration writes
\* more than one output, and an iteration in which a source yields an error
\* writes none.
C26_StoreWrittenBeforePublish ==
  /\ \A index \in Fallible : \A status \in Statuses(index) :
       status.ok =>
         ~ENABLED (/\ Yields(index, status)
                   /\ ~(/\ Entries(blocks', index) = Projection(index, status.value)
                        /\ Len(stdout') = 1
                        /\ \A k \in 1..Len(EntryNames(index)) :
                             Shown(stdout'[1], EntryNames(index)[k])
                               = Text(Projection(index, status.value)[k])))
  /\ \A k \in 1..Len(stdout) : \A name \in DOMAIN blocks :
       Shown(stdout[k], name) = IF name = "error" THEN blocks.error ELSE Text(blocks[name])
  /\ Len(stdout) <= 1
  /\ \A index \in Fallible : ~ENABLED (ErrorFrom(index) /\ stdout' # <<>>)

\* The refresh just published has a cpu series and no wifi series.
C26_Witness ==
  /\ Len(stdout) = 1
  /\ blocks.cpu = 1
  /\ blocks.wifi = 0
  /\ Shown(stdout[1], "cpu") = "1"
  /\ Shown(stdout[1], "wifi") = ""
  /\ Shown(stdout[1], "clock") = "1"

\* The order in which a bar lists the entries of the store.
PublishOrder ==
  <<"error", "upload", "download", "wifi", "temperature", "cpu", "upower", "volume", "bluez",
    "clock">>

Rank(name) == CHOOSE k \in 1..Len(PublishOrder) : PublishOrder[k] = name

\* The entry `name` of the store holds something.
NonEmpty(b, name) == IF name = "error" THEN b.error # "" ELSE b[name] # 0

\* C27: every output is the whole store: it lists every entry that is not
\* empty, changed by this iteration or not, with what the store holds, lists
\* no other, and lists them in the order error, upload, download, wifi,
\* temperature, cpu, upower, volume, bluez, clock.
C27_PublishIsWholeStore ==
  \A k \in 1..Len(stdout) :
    LET bar == stdout[k] IN
    /\ \A name \in DOMAIN blocks :
         /\ NonEmpty(blocks, name) <=> \E at \in 1..Len(bar) : bar[at].name = name
         /\ NonEmpty(blocks, name) =>
              Shown(bar, name) = IF name = "error" THEN blocks.error ELSE Text(blocks[name])
    /\ \A at \in 1..Len(bar) : bar[at].name \in DOMAIN blocks /\ bar[at].full_text # ""
    /\ \A i, j \in 1..Len(bar) : i < j => Rank(bar[i].name) < Rank(bar[j].name)

\* An output that lists the error first, the clock last and entries of three
\* adapters between them, bluez's being empty.
C27_Witness ==
  /\ Len(stdout) = 1
  /\ Len(stdout[1]) >= 5
  /\ stdout[1][1].name = "error"
  /\ stdout[1][Len(stdout[1])].name = "clock"
  /\ blocks.bluez = 0
  /\ blocks.upower # 0
  /\ blocks.volume # 0
  /\ blocks.cpu # 0

\* C24, as stated: handling the signal the error stream emits when the dwell
\* elapses publishes the snapshot, and reconstructs no quarantined adapter.
C24_DwellSignalRefreshesDisplay ==
  [][RebuildStep => Len(stdout') = 1 /\ failed_streams' = failed_streams]_vars

\* C24, amended: the signal the error stream emits when the dwell elapses is
\* the adapter-rebuild signal: the iteration that handles it has cleared the
\* error entry, reconstructs every quarantined adapter and writes no output;
\* the snapshot without the error is written by a later Publish, every
\* output showing the error entry as the store holds it.
C24_DwellSignalRebuildsAdapters ==
  /\ [][RebuildStep =>
          /\ stdout' = <<>>
          /\ blocks'.error = ""
          /\ \A index \in Fallible :
               /\ ~failed_streams'[index]
               /\ failed_streams[index] => fallible_streams'[index] = NewStream(index)]_vars
  /\ [](\A k \in 1..Len(stdout) : Shown(stdout[k], "error") = blocks.error)

\* Right after a Rebuild was handled: volume's new stream has its starting
\* value due, the error is cleared and the iteration wrote nothing.
C24_Witness ==
  /\ fallible_streams[VOLUME] = "once"
  /\ ~failed_streams[VOLUME]
  /\ blocks.clock # 0
  /\ blocks.error = ""
  /\ elapsed = DWELL
  /\ stdout = <<>>

\* C25: an error written to the error channel is eventually received; the
\* iteration that receives it shows the error written last in the error
\* entry and runs the Publish arm, whose bar lists that error first; and an
\* error that is shown is eventually cleared unless another error is written.
C25_ErrorShownThenCleared ==
  /\ (channel # <<>>) ~> (channel = <<>>)
  /\ [](channel # <<>> =>
          ~ENABLED (ErrorReceive /\ ~(/\ channel' = <<>>
                                      /\ blocks'.error = last_sent
                                      /\ HandlePublish(fallible_streams)
                                      /\ Len(Bar(blocks')) >= 1
                                      /\ Bar(blocks')[1] =
                                           [name |-> "error", full_text |-> last_sent])))
  /\ [][channel # <<>> /\ channel' = <<>> => blocks'.error = last_sent]_vars
  /\ (blocks.error # "" /\ channel = <<>>) ~> (blocks.error = "" \/ channel # <<>>)

\* The error of prometheus has just been received and shown, prometheus
\* being quarantined.
C25_Witness ==
  /\ blocks.error = "Prometheus"
  /\ Bar(blocks)[1] = [name |-> "error", full_text |-> "Prometheus"]
  /\ failed_streams[PROMETHEUS]
  /\ channel = <<>>
  /\ nsent = 0
  /\ elapsed = 0

\* The iteration leaves alone everything that belongs to another source than
\* the one at `index`: the entries, the quarantine flag and both streams of
\* every other fallible source, and the entries of the clock and of the error
\* stream.
OthersUntouched(index) ==
  /\ \A other \in Fallible \ {index} :
       /\ Entries(blocks', other) = Entries(blocks, other)
       /\ failed_streams'[other] = failed_streams[other]
       /\ fallible_streams'[other] = fallible_streams[other]
       /\ pending_streams'[other] = pending_streams[other]
  /\ blocks'.clock = blocks.clock
  /\ blocks'.error = blocks.error

\* The step is an iteration that handles an item of the source at `index`: a
\* value, an error, a click or the end of the stream.
EventOf(index) ==
  \/ \E status \in Statuses(index) : Yields(index, status)
  \/ index = CLICKS /\ (ClicksClick \/ ClicksError)
  \/ EndOfStream(index)

\* The source at `index` is polled by select_all and can be the one it
\* returns: it is live and no stream before it answers at once.
Served(index) ==
  /\ fallible_streams[index] = "live"
  /\ \A before \in 0..(index - 1) : ~ReadyNow(before)

\* C28: an event of a fallible source, value, error or end of stream,
\* changes nothing of any other source; a quarantined source holds the
\* placeholder, which never answers, and every other live source goes on
\* being served: whenever no stream before it answers at once, its next
\* item can be the one the supervisor handles.
C28_FaultIsolation ==
  /\ \A index \in Fallible : ~ENABLED (EventOf(index) /\ ~OthersUntouched(index))
  /\ \A index \in Fallible :
       failed_streams[index] =>
         /\ fallible_streams[index] = "pending"
         /\ ~ReadyNow(index)
         /\ \A other \in Fallible \ {index} : Served(other) => ENABLED EventOf(other)
         /\ (\A before \in Fallible : ~ReadyNow(before)) =>
              ENABLED ClockItem /\ ENABLED (ErrorReceive \/ ErrorTick)

\* upower is quarantined and its entry emptied while bluez, prometheus and
\* volume, each live, still show what they published.
C28_Witness ==
  /\ failed_streams[UPOWER]
  /\ blocks.upower = 0
  /\ \A index \in {BLUEZ, PROMETHEUS, VOLUME} : fallible_streams[index] = "live"
  /\ blocks.bluez # 0
  /\ blocks.cpu # 0
  /\ blocks.volume # 0


\* ---------------------------------------------------------------- C21
\* C21: no source other than the interrupt source can stop the process:
\* whatever error, end of stream, end of an internal notification stream or
\* user-input record an adapter produces, the supervisor loop keeps running
\* (the process stops, at most, on a failed write to its own output).
\* Checked under StopSpec, where it is violated: a click on a bluez block
\* whose instance is no object path panics in the Click arm, and the end of
\* a signal stream fails the assertion of the synchronizer.
C21_NoSourceStopsTheProcess == panicked \in {NoPanic, StdoutError}

C29_IncompleteWaitsInvalidEnds ==
  /\ [][ClicksReads("truncated") => channel' = channel /\ nsent' = nsent]_vars
  /\ [][ClicksReads("invalid") =>
          /\ channel' # <<>>
          /\ fallible_streams'[CLICKS] \in {"erred", "ended"}]_vars


\* ---------------------------------------------------------------- C30
\* C30: the Snapshot Store is read and written only by the code the one
\* thread is running, and never across a suspension point: whenever the
\* task is suspended no borrow is outstanding, a borrow is held only by the
\* closure that is running, and no access begins while the store is mutably
\* borrowed (RefCell never panics), in any interleaving of the sources.
C30_NoAccessAcrossSuspension ==
  /\ panicked = NoPanic
  /\ borrow \in {-1, 0, 1}
  /\ running = "none" => borrow = 0
  /\ borrow # 0 => running # "none" /\ position[running] = "closure"
  /\ \A code \in Writers \cup {"main"} : position[code] = "closure" => running = code
  /\ borrow = -1 => running \in Writers
  /\ borrow = 1 => running = "main"
  /\ ~ENABLED ((MainBorrow \/ \E code \in Writers : Enter(code)) /\ panicked' # NoPanic)

\* The error stream writes the store while bluez has written it and the
\* Publish arm has read it before, and the other generators stand at an await.
C30_Witness ==
  /\ borrow = -1
  /\ running = "error"
  /\ position["error"] = "closure"
  /\ blocks.bluez # 0
  /\ stdout # <<>>
  /\ \A code \in Writers \ {"error"} : position[code] = "await"

\* ---------------------------------------------------------------- C36
\* The tick on which the error stream yields BlockUpdate::Rebuild.
RebuildEmitted == ErrorTick /\ Ticked(ticks, blocks) >= DWELL

\* C36: between the iterations the tick counter of the error stream is in
\* 0..9; it increases only by one, on a tick during which an error is
\* displayed; Rebuild is emitted only on the tenth counted tick of a
\* displayed error, and never while no error is displayed.
C36_TickCounter ==
  /\ [](ticks \in 0..(DWELL - 1))
  /\ [][ticks' > ticks => ErrorTick /\ blocks.error # "" /\ ticks' = ticks + 1]_vars
  /\ [](~ENABLED (RebuildEmitted /\ ~(/\ blocks.error # ""
                                     /\ ticks = DWELL - 1
                                     /\ elapsed = DWELL - 1
                                     /\ ticks' = 0)))
  /\ [](blocks.error = "" => ~ENABLED RebuildEmitted)

\* The error of a failed read has been displayed for nine ticks and the
\* tenth is due: Rebuild is about to be emitted.
C36_Witness ==
  /\ ENABLED RebuildEmitted
  /\ blocks.error = "IO"
  /\ ticks = DWELL - 1
  /\ failed_streams[VOLUME]


\* ---------------------------------------------------------------- C31
\* C31: the rebuilds follow one fixed cadence.  A Rebuild is emitted on the
\* tenth tick after the latest receive of an error and on no earlier one;
\* the count of ticks since that receive changes only by a receive (to 0)
\* and by a tick (by one); after a Rebuild no other is emitted until an
\* error is received again, so at least DWELL ticks separate two Rebuilds;
\* and the tenth tick emits it whichever sources are quarantined and
\* whatever they have failed with.
C31_FixedCadence ==
  /\ [][RebuildEmitted => elapsed = DWELL - 1 /\ elapsed' = DWELL]_vars
  /\ [][elapsed' # elapsed =>
          \/ ErrorReceive /\ elapsed' = 0
          \/ ErrorTick /\ elapsed' = elapsed + 1]_vars
  /\ [](elapsed # DWELL - 1 => ~ENABLED RebuildEmitted)
  /\ [](/\ elapsed = DWELL - 1
        /\ channel = <<>>
        /\ panicked = NoPanic
        /\ \A index \in Fallible : ~ReadyNow(index)
        => ENABLED RebuildEmitted)

\* The tenth tick is due while bluez and prometheus are both quarantined.
C31_Witness ==
  /\ ENABLED RebuildEmitted
  /\ elapsed = DWELL - 1
  /\ failed_streams[BLUEZ]
  /\ failed_streams[PROMETHEUS]
  /\ ~failed_streams[VOLUME]


\* ---------------------------------------------------------------- C32
\* C32: the volume adapter never ends silently.  When the output of
\* `pactl subscribe` ends, the adapter yields an error, which the supervisor
\* forwards while the stream is still in its slot; and the end of the
\* volume stream is only ever seen right after the stream has yielded an error.
C32_VolumeNeverEndsSilently ==
  /\ [](\A exit \in PactlExits :
          ~ENABLED (VolumeOutputEnds(exit) /\ ~(/\ channel' = force_send(channel, "IO")
                                                /\ fallible_streams'[VOLUME] = "erred"
                                                /\ ~failed_streams'[VOLUME]
                                                /\ blocks'.volume = 0)))
  /\ [][~failed_streams[VOLUME] /\ failed_streams'[VOLUME] =>
          fallible_streams[VOLUME] = "erred"]_vars
  /\ [][fallible_streams[VOLUME] = "live" =>
          fallible_streams'[VOLUME] \in {"live", "erred"}]_vars

\* The output has ended after a volume was shown: the error is in the
\* channel and the end of the stream is due.
C32_Witness ==
  /\ fallible_streams[VOLUME] = "erred"
  /\ channel = <<"IO">>
  /\ last_sent = "IO"
  /\ blocks.volume = 0
  /\ blocks.clock # 0
  /\ ~failed_streams[VOLUME]


\* ---------------------------------------------------------------- C37
\* C37: a metrics refresh is all-or-nothing.  After the event of a refresh
\* in which no query failed, each of the five entries is the result of its
\* query of that refresh and the event is a Publish; after the event of a
\* refresh in which a query failed, whichever it is, the five entries are
\* empty, the event is an error and the stream is at its end.
C37_RefreshAllOrNothing ==
  \A results \in Queried :
    ~ENABLED (/\ PrometheusYields(Refresh(results))
              /\ ~IF \E query \in DOMAIN results : results[query] = Failed
                  THEN /\ Entries(blocks', PROMETHEUS) = <<0, 0, 0, 0, 0>>
                       /\ channel' = force_send(channel, "Prometheus")
                       /\ fallible_streams'[PROMETHEUS] = "erred"
                  ELSE /\ Entries(blocks', PROMETHEUS) = Projection(PROMETHEUS, results)
                       /\ channel' = channel
                       /\ fallible_streams'[PROMETHEUS] = "live")

\* A query of a refresh has failed: the five entries are empty, the error is
\* in the channel and the end of the stream is due.
C37_Witness ==
  /\ fallible_streams[PROMETHEUS] = "erred"
  /\ Entries(blocks, PROMETHEUS) = <<0, 0, 0, 0, 0>>
  /\ channel = <<"Prometheus">>
  /\ blocks.clock # 0
  /\ blocks.error = ""


\* ---------------------------------------------------------------- C35
\* C35: in a synchronizer, whenever a snapshot is about to be read and
\* emitted or a notification is awaited, the proxies and the subscriptions
\* have the same keys, and the subscriptions that can deliver a
\* PropertiesChanged are those of the tracked devices (and, for bluez, the
\* one of the adapter).
C35_ProxiesMatchSubscriptions ==
  pc \in {"read", "wait"} =>
    /\ devices = devices_properties
    /\ DOMAIN property = devices_properties \cup (IF kind = "bluez" THEN {ADAPTER} ELSE {})

\* A notification is awaited after a pass that dropped a device and kept
\* another one.
C35_Witness ==
  /\ pc = "wait"
  /\ devices # {}
  /\ previous_paths \ devices # {}
  /\ devices = devices_properties


\* ---------------------------------------------------------------- C38
BluezClicks == {click \in Clicks : click.name = "bluez"}

\* The write call on a device whose connected property read `connected`.
WriteCall(device, connected) ==
  [object |-> device, method |-> IF connected = "true" THEN "Disconnect" ELSE "Connect"]

\* C38 as stated: a bluez click with button 1 and a device instance issues
\* exactly one write call to that device, disconnect if connected read true
\* and connect otherwise; with no instance it toggles the adapter power; a
\* bluez click with another button issues no call and raises no error.
C38_ToggleIssuesOneCall ==
  \A click \in BluezClicks, failed \in BOOLEAN :
    \A connected \in Replies(click, failed) :
      ~ENABLED (/\ ClicksDispatches(click, failed, connected)
                /\ ~(CASE click.button # 1 ->
                            called' = <<>> /\ channel' = channel /\ panicked' = NoPanic
                       [] click.button = 1 /\ click.instance = "none" ->
                            called' = <<[object |-> "adapter", method |-> "power"]>>
                       [] OTHER ->
                            called' = <<WriteCall(click.instance, connected)>>))

\* C38, amended: a bluez click with button 1 and a device instance issues at
\* most one write call to that device: disconnect if its connected property
\* read true, connect if it read false, and none when the property could
\* not be read, the error being sent to the channel; with no instance it
\* toggles the adapter power; a bluez click with another button issues no
\* call and sends no error.
C38_ToggleCallFollowsTheRead ==
  \A click \in BluezClicks, failed \in BOOLEAN :
    \A connected \in Replies(click, failed) :
      ~ENABLED (/\ ClicksDispatches(click, failed, connected)
                /\ ~(CASE click.button # 1 ->
                            called' = <<>> /\ channel' = channel /\ panicked' = NoPanic
                       [] click.button = 1 /\ click.instance = "none" ->
                            called' = <<[object |-> "adapter", method |-> "power"]>>
                       [] connected \in {"true", "false"} ->
                            called' = <<WriteCall(click.instance, connected)>>
                       [] OTHER ->
                            /\ called' = <<>>
                            /\ channel' = force_send(channel, "ZBus")
                            /\ panicked' = NoPanic))

\* A click on a connected device has just been handled: one Disconnect was
\* issued to it and nothing was sent to the channel.
C38_Witness ==
  /\ called = <<[object |-> "device", method |-> "Disconnect"]>>
  /\ channel = <<>>
  /\ panicked = NoPanic


\* ---------------------------------------------------------------- C34
\* C34: a source that has yielded a terminal error has its end of stream
\* handled, and is flagged by it, before the error stream is polled at all:
\* the error is received, and the Rebuild it causes is emitted, only
\* afterwards; from then on the source stays flagged while the error waits
\* in the channel or is displayed, and the Rebuild reconstructs every
\* flagged source.
C34_QuarantinedBeforeRebuild ==
  /\ [](\A index \in Fallible :
          fallible_streams[index] = "erred" =>
            /\ ~failed_streams[index]
            /\ channel # <<>>
            /\ ~ENABLED (ErrorReceive \/ ErrorTick)
            /\ ~ENABLED (EndOfStream(index) /\ ~(/\ failed_streams'[index]
                                                 /\ fallible_streams'[index] = "pending"
                                                 /\ channel' = channel)))
  /\ [][\A index \in Fallible :
          fallible_streams[index] = "erred" /\ fallible_streams'[index] # "erred" =>
            failed_streams'[index]]_vars
  /\ [](\A index \in Fallible \ {CLICKS} :
          failed_streams[index] => channel # <<>> \/ blocks.error # "")
  /\ [][RebuildEmitted =>
          \A index \in Fallible :
            failed_streams[index] =>
              ~failed_streams'[index] /\ fallible_streams'[index] = NewStream(index)]_vars

\* upower has yielded its terminal error and has been flagged at its end;
\* the error is displayed and the next tick emits the Rebuild.
C34_Witness ==
  /\ failed_streams[UPOWER]
  /\ pending_streams[UPOWER] = "ended"
  /\ blocks.error = "ZBus"
  /\ channel = <<>>
  /\ ENABLED RebuildEmitted


\* ---------------------------------------------------------------- C33
\* C33: every adapter that publishes a state, each time it is constructed
\* or reconstructed, yields its first event before it waits for any
\* notification or tick: a generator that has yielded nothing is never at a
\* wait and can always be run on, the first event follows no wait, and it
\* is an error or the reading made for it (at the construction for volume,
\* at the first poll for the others).
C33_FirstEventWithoutWaiting ==
  /\ [](\A index \in Starters :
          LET g == generator[index] IN
          /\ g.events = <<>> => g.at \in {"unbuilt", "start"} /\ g.waits = 0
          /\ g.at = "start" /\ Alone(index) => ENABLED Starts(index)
          /\ g.at = "start" /\ index = VOLUME => g.held # {}
          /\ g.events # <<>> => g.events[1].waited = 0)
  /\ [][\A index \in Starters :
          generator[index].events = <<>> /\ generator'[index].events # <<>> =>
            LET first == generator'[index].events[1].status IN
            /\ Len(generator'[index].events) = 1
            /\ first.ok =>
                 IF index = VOLUME THEN first \in generator[index].held
                 ELSE first.value = world[index]]_vars

\* The metrics adapter was reconstructed after an error and has yielded the
\* current reading, changed since, as its first event: no tick was awaited.
C33_Witness ==
  /\ generator[PROMETHEUS].at = "wait"
  /\ generator[PROMETHEUS].built = 2
  /\ generator[PROMETHEUS].events = <<[status |-> Ok(2), waited |-> 0]>>
  /\ world[PROMETHEUS] = 2

====
